---- MODULE Spec2Model ----
(***************************************************************************)
(* Recommendation engine of slotfit: the rule-based provider               *)
(* (backend/app/services/ai/fallback_provider.py), the remote adapters     *)
(* (claude_provider.py, gemini_provider.py), the orchestrator with its     *)
(* cache (service.py) and the recommendations endpoint                     *)
(* (api/v1/endpoints/recommendations.py).                                  *)
(*                                                                         *)
(* Conventions.  Text that the code matches character by character is a    *)
(* sequence of one-character strings; reasons are sequences of words with  *)
(* ":" as a token of its own.  Scores are in thousandths (1000 = 1.0),     *)
(* volume penalties in tenths.  Time is counted in half hours.             *)
(***************************************************************************)
EXTENDS Integers, Sequences, FiniteSets, TLC

\* ---------------------------------------------------------------- bounds
MaxLimit == 2
MaxTime == 2
MaxProfiles == 3
MaxWorkouts == 1
MaxRuleLimit == 20

\* rows of workout_exercises the add requests are followed to
MaxAdded == 3

\* ------------------------------------------------------ program constants
CacheTtl == 2
MaxPerType == 3
NotRecommendedCap == 10
RecencyDays == 2
TicksPerDay == 48

\* Python None for text-valued columns and names.
None == <<>>

EmptyMap == [x \in {} |-> 0]

\* ------------------------------------------------------------ text helpers
LowerChar(c) ==
  CASE c = "O" -> "o"
    [] c = "P" -> "p"
    [] c = "H" -> "h"
    [] c = "U" -> "u"
    [] c = "C" -> "c"
    [] c = "I" -> "i"
    [] OTHER -> c

\* str.lower()
Lower(s) == [i \in 1..Len(s) |-> LowerChar(s[i])]

\* a in b  (substring test on text)
IsSubstring(a, b) ==
  \E i \in 0..(Len(b) - Len(a)) : SubSeq(b, i + 1, i + Len(a)) = a

RECURSIVE StripLeft(_)
StripLeft(s) == IF s # <<>> /\ Head(s) = " " THEN StripLeft(Tail(s)) ELSE s

RECURSIVE StripRight(_)
StripRight(s) ==
  IF s # <<>> /\ s[Len(s)] = " " THEN StripRight(SubSeq(s, 1, Len(s) - 1)) ELSE s

\* str.strip()
Strip(s) == StripRight(StripLeft(s))

\* seq[:n] for n >= 0
Take(s, n) == SubSeq(s, 1, IF n < Len(s) THEN n ELSE Len(s))

Min(a, b) == IF a < b THEN a ELSE b
Max(a, b) == IF a > b THEN a ELSE b

RECURSIVE SelectIdx(_, _, _)
\* positions i of s, in order, with s[i] in the set keep
SelectIdx(n, i, keep) ==
  IF i > n THEN <<>>
  ELSE IF i \in keep THEN <<i>> \o SelectIdx(n, i + 1, keep)
       ELSE SelectIdx(n, i + 1, keep)

PickAt(s, idx) == [k \in 1..Len(idx) |-> s[idx[k]]]

\* the elements of s at the positions in keep, order preserved
FilterAt(s, keep) == PickAt(s, SelectIdx(Len(s), 1, keep))

SeqToSet(s) == {s[i] : i \in 1..Len(s)}

RECURSIVE InsertInt(_, _)
InsertInt(x, s) ==
  IF s = <<>> THEN <<x>>
  ELSE IF x < Head(s) THEN <<x>> \o s
       ELSE <<Head(s)>> \o InsertInt(x, Tail(s))

RECURSIVE SortedInts(_)
\* sorted(list of int)
SortedInts(s) == IF s = <<>> THEN <<>> ELSE InsertInt(Head(s), SortedInts(Tail(s)))

\* ------------------------------------------------------------- the database
Push == <<"P", "u", "s", "h">>
Pull == <<"P", "u", "l", "l">>
Compound == <<"C", "o", "m", "p">>
Isolation == <<"I", "s", "o">>
OverheadPress == <<"O", "v", "e", "r", "h", "e", "a", "d", " ", "P", "r", "e", "s", "s">>
HorizontalPush == <<"H", "o", "r", "i", "z", " ", "P", "u", "s", "h">>
HorizontalPull == <<"H", "o", "r", "i", "z", " ", "P", "u", "l", "l">>

Chest == [id |-> 1, name |-> "Chest"]
Shoulders == [id |-> 2, name |-> "Shoulders"]
Back == [id |-> 3, name |-> "Back"]
Arms == [id |-> 4, name |-> "Arms"]
Legs == [id |-> 5, name |-> "Legs"]
Prone == <<"P", "r", "o", "n", "e">>

\* rows 7 to 25 of table exercises, all of muscle group Legs and without force
\* type or mechanics: four performed prone, three on a machine, twelve plain
LegRow(k) ==
  [id |-> 6 + k, name |-> "Leg Drill " \o ToString(k),
   primary_equipment_id |-> IF k \in 5..7 THEN 3 ELSE 0, secondary_equipment_id |-> 0,
   primary_equipment |-> IF k \in 5..7 THEN <<"Machine">> ELSE None,
   secondary_equipment |-> None,
   muscle_groups |-> <<Legs>>,
   movement_pattern_1 |-> None, movement_pattern_2 |-> None, movement_pattern_3 |-> None,
   force_type |-> None, mechanics |-> None,
   posture |-> IF k \in 1..4 THEN Prone ELSE None,
   plane_of_motion_1 |-> None, plane_of_motion_2 |-> None,
   plane_of_motion_3 |-> None, laterality |-> None]

LegRows == [k \in 1..19 |-> LegRow(k)]

\* rows of table exercises with their loaded relationships, in id order
Exercises ==
  << [id |-> 1, name |-> "Push Up",
      primary_equipment_id |-> 0, secondary_equipment_id |-> 0,
      primary_equipment |-> None, secondary_equipment |-> None,
      muscle_groups |-> <<Chest>>,
      movement_pattern_1 |-> HorizontalPush, movement_pattern_2 |-> None,
      movement_pattern_3 |-> None,
      force_type |-> Push, mechanics |-> Compound, posture |-> None,
      plane_of_motion_1 |-> None, plane_of_motion_2 |-> None,
      plane_of_motion_3 |-> None, laterality |-> None],
     [id |-> 2, name |-> "Overhead Press",
      primary_equipment_id |-> 1, secondary_equipment_id |-> 0,
      primary_equipment |-> <<"Barbell">>, secondary_equipment |-> None,
      muscle_groups |-> <<Chest, Shoulders>>,
      movement_pattern_1 |-> OverheadPress, movement_pattern_2 |-> None,
      movement_pattern_3 |-> None,
      force_type |-> Push, mechanics |-> Compound, posture |-> None,
      plane_of_motion_1 |-> None, plane_of_motion_2 |-> None,
      plane_of_motion_3 |-> None, laterality |-> None],
     [id |-> 3, name |-> "Cable Fly",
      primary_equipment_id |-> 2, secondary_equipment_id |-> 0,
      primary_equipment |-> <<"Cable">>, secondary_equipment |-> None,
      muscle_groups |-> <<Chest>>,
      movement_pattern_1 |-> HorizontalPush, movement_pattern_2 |-> None,
      movement_pattern_3 |-> None,
      force_type |-> Push, mechanics |-> Isolation, posture |-> None,
      plane_of_motion_1 |-> None, plane_of_motion_2 |-> None,
      plane_of_motion_3 |-> None, laterality |-> None],
     [id |-> 4, name |-> "Face Pull",
      primary_equipment_id |-> 2, secondary_equipment_id |-> 1,
      primary_equipment |-> <<"Cable">>, secondary_equipment |-> <<"Barbell">>,
      muscle_groups |-> <<Shoulders, Back>>,
      movement_pattern_1 |-> HorizontalPull, movement_pattern_2 |-> None,
      movement_pattern_3 |-> None,
      force_type |-> Pull, mechanics |-> Isolation, posture |-> None,
      plane_of_motion_1 |-> None, plane_of_motion_2 |-> None,
      plane_of_motion_3 |-> None, laterality |-> None],
     [id |-> 5, name |-> "Dip",
      primary_equipment_id |-> 0, secondary_equipment_id |-> 0,
      primary_equipment |-> None, secondary_equipment |-> None,
      muscle_groups |-> <<Arms>>,
      movement_pattern_1 |-> None, movement_pattern_2 |-> None,
      movement_pattern_3 |-> None,
      force_type |-> Push, mechanics |-> Compound, posture |-> None,
      plane_of_motion_1 |-> None, plane_of_motion_2 |-> None,
      plane_of_motion_3 |-> None, laterality |-> None],
     [id |-> 6, name |-> "Chin Up",
      primary_equipment_id |-> 0, secondary_equipment_id |-> 0,
      primary_equipment |-> None, secondary_equipment |-> None,
      muscle_groups |-> <<Arms>>,
      movement_pattern_1 |-> None, movement_pattern_2 |-> None,
      movement_pattern_3 |-> None,
      force_type |-> Pull, mechanics |-> Compound, posture |-> None,
      plane_of_motion_1 |-> None, plane_of_motion_2 |-> None,
      plane_of_motion_3 |-> None, laterality |-> None] >>
  \o LegRows

\* rows of table weekly_volume for the current week: muscle_group_id -> total_sets
WeeklyVolumeRows == (1 :> 12) @@ (2 :> 22)

\* the active injury restrictions of the requesting user
InjuryRestrictionRows ==
  << [injury_name |-> <<"Shoulder", "Impingement">>,
      restriction_type |-> "movement_pattern",
      restriction_value |-> Lower(OverheadPress)] >>

\* other rows of weekly_volume: one group at the edge of moderate, one just high
WeeklyVolumeRows2 == (1 :> 22) @@ (2 :> 8) @@ (3 :> 21) @@ (4 :> 10)

\* a week with 25 sets for Legs
WeeklyVolumeRows3 == (5 :> 25)

\* three active restrictions of two injuries; the first and the third match the
\* same exercises
InjuryRestrictionRows2 ==
  << [injury_name |-> <<"Back", "Strain">>,
      restriction_type |-> "posture", restriction_value |-> Lower(Prone)],
     [injury_name |-> <<"Shoulder", "Impingement">>,
      restriction_type |-> "movement_pattern",
      restriction_value |-> Lower(OverheadPress)],
     [injury_name |-> <<"Neck", "Pain">>,
      restriction_type |-> "posture", restriction_value |-> <<"p", "r", "o">>] >>

\* no injury restriction reaches the provider
NoRestrictions == <<>>

\* user_workout_history = None
NoHistory == [has |-> FALSE, exercise_frequency |-> EmptyMap, last_performed |-> EmptyMap]

\* movement_patterns = None
NoMovementPatterns ==
  [present |-> FALSE, Push |-> 0, Pull |-> 0, Compound |-> 0, Isolation |-> 0]

\* a history with sessions some days back
History2 ==
  [has |-> TRUE, exercise_frequency |-> (2 :> 1) @@ (5 :> 3) @@ (6 :> 3),
   last_performed |-> (2 :> (0 - 200)) @@ (6 :> (0 - 50))]

\* a history with two Legs exercises performed within the last day, one of them
\* twelve times, and a third one performed once
History3 ==
  [has |-> TRUE, exercise_frequency |-> (14 :> 12) @@ (15 :> 2) @@ (16 :> 1),
   last_performed |-> (14 :> (0 - 10)) @@ (15 :> (0 - 20))]

\* tallies of the current workout: five Push against one Pull; force types
\* one apart with three Compound and no Isolation
PushHeavy == [present |-> TRUE, Push |-> 5, Pull |-> 1, Compound |-> 0, Isolation |-> 0]
CompoundHeavy == [present |-> TRUE, Push |-> 2, Pull |-> 1, Compound |-> 3, Isolation |-> 0]

\* --------------------------------------------- rule-based provider (pure part)
\* one restriction r against one exercise: the branch of its restriction_type
RestrictionMatches(exercise, r) ==
  LET v == Lower(r.restriction_value) IN
  CASE r.restriction_type = "movement_pattern" ->
         \E p \in {exercise.movement_pattern_1, exercise.movement_pattern_2,
                   exercise.movement_pattern_3} : IsSubstring(v, Lower(p))
    [] r.restriction_type = "force_type" ->
         exercise.force_type # None /\ IsSubstring(v, Lower(exercise.force_type))
    [] r.restriction_type = "posture" ->
         exercise.posture # None /\ IsSubstring(v, Lower(exercise.posture))
    [] r.restriction_type = "plane_of_motion" ->
         \E p \in {exercise.plane_of_motion_1, exercise.plane_of_motion_2,
                   exercise.plane_of_motion_3} : IsSubstring(v, Lower(p))
    [] r.restriction_type = "laterality" ->
         exercise.laterality # None /\ IsSubstring(v, Lower(exercise.laterality))
    [] OTHER -> FALSE

RECURSIVE is_restricted_by_last(_, _)
\* the reason of the last matching restriction instead of the first
is_restricted_by_last(exercise, restrictions) ==
  IF restrictions = <<>> THEN None
  ELSE IF RestrictionMatches(exercise, restrictions[Len(restrictions)])
       THEN <<"May", "aggravate">> \o restrictions[Len(restrictions)].injury_name
       ELSE is_restricted_by_last(exercise, SubSeq(restrictions, 1, Len(restrictions) - 1))

RECURSIVE is_restricted_by_injury(_, _)
\* the reason of the first matching restriction, None when there is none
is_restricted_by_injury(exercise, restrictions) ==
  IF restrictions = <<>> THEN None
  ELSE IF RestrictionMatches(exercise, Head(restrictions))
       THEN <<"May", "aggravate">> \o Head(restrictions).injury_name
       ELSE is_restricted_by_injury(exercise, Tail(restrictions))

NotRecommendedExercise(exercise, reason) ==
  [exercise_id |-> exercise.id, exercise_name |-> exercise.name, reason |-> reason]

\* Step 1: the exercises joined to one of the muscle groups, each once
QueryExercises(muscle_group_ids) ==
  IF muscle_group_ids = <<>> THEN Exercises
  ELSE FilterAt(Exercises,
         {i \in 1..Len(Exercises) :
            \E k \in 1..Len(Exercises[i].muscle_groups) :
               Exercises[i].muscle_groups[k].id \in SeqToSet(muscle_group_ids)})

InjuryEntries(out, injury_restrictions) ==
  [k \in 1..Len(out) |->
     NotRecommendedExercise(out[k], is_restricted_by_injury(out[k], injury_restrictions))]

\* Step 3: entries of the candidates matched by an injury restriction
InjuryExclusions(all_exercises, injury_restrictions) ==
  InjuryEntries(
    FilterAt(all_exercises,
      {i \in 1..Len(all_exercises) :
         is_restricted_by_injury(all_exercises[i], injury_restrictions) # None}),
    injury_restrictions)

injury_filtered_exercises(all_exercises, injury_restrictions) ==
  FilterAt(all_exercises,
    {i \in 1..Len(all_exercises) :
       is_restricted_by_injury(all_exercises[i], injury_restrictions) = None})

\* the equipment test without the branch for an empty equipment list
EquipmentListed(exercise, available_equipment_ids) ==
  \/ exercise.primary_equipment_id = 0
  \/ exercise.primary_equipment_id \in SeqToSet(available_equipment_ids)
  \/ exercise.secondary_equipment_id \in SeqToSet(available_equipment_ids)

\* Step 4: the equipment test of one exercise (0 is a NULL equipment id)
has_available_equipment(exercise, available_equipment_ids) ==
  IF exercise.primary_equipment_id = 0 THEN TRUE
  ELSE IF available_equipment_ids # <<>>
       THEN \/ exercise.primary_equipment_id \in SeqToSet(available_equipment_ids)
            \/ exercise.secondary_equipment_id \in SeqToSet(available_equipment_ids)
       ELSE TRUE

available_exercises(filtered, available_equipment_ids) ==
  FilterAt(filtered,
    {i \in 1..Len(filtered) : has_available_equipment(filtered[i], available_equipment_ids)})

EquipmentName(exercise) ==
  IF exercise.primary_equipment # None THEN exercise.primary_equipment
  ELSE IF exercise.secondary_equipment # None THEN exercise.secondary_equipment
       ELSE <<"Unknown Equipment">>

EquipmentEntries(out) ==
  [k \in 1..Len(out) |->
     NotRecommendedExercise(out[k],
       <<"Equipment", "not", "available", ":">> \o EquipmentName(out[k]))]

EquipmentExclusions(filtered, available_equipment_ids) ==
  EquipmentEntries(
    FilterAt(filtered,
      {i \in 1..Len(filtered) :
         ~has_available_equipment(filtered[i], available_equipment_ids)}))

RECURSIVE FirstHighVolume(_, _)
\* Step 5, inner loop: the first muscle group of the exercise whose weekly
\* total_sets exceeds 20, as a one-element sequence; <<>> when there is none
FirstHighVolume(muscle_groups, weekly_volume) ==
  IF muscle_groups = <<>> THEN <<>>
  ELSE IF /\ Head(muscle_groups).id \in DOMAIN weekly_volume
          /\ weekly_volume[Head(muscle_groups).id] > 20
       THEN <<Head(muscle_groups)>>
       ELSE FirstHighVolume(Tail(muscle_groups), weekly_volume)

VolumeEntry(exercise, mg, sets) ==
  NotRecommendedExercise(exercise,
    <<"Weekly", "volume", "exceeded", "for">>
      \o (IF mg.name # "" THEN <<mg.name>> ELSE <<"Muscle", "Group", ToString(mg.id)>>)
      \o <<ToString(sets), "sets">>)

VolumeEntryAt(exercise, mg, weekly_volume) == VolumeEntry(exercise, mg, weekly_volume[mg.id])

VolumeEntries(out, weekly_volume) ==
  [k \in 1..Len(out) |->
     VolumeEntryAt(out[k], FirstHighVolume(out[k].muscle_groups, weekly_volume)[1],
                   weekly_volume)]

VolumeExclusions(available, weekly_volume) ==
  VolumeEntries(
    FilterAt(available,
      {i \in 1..Len(available) :
         FirstHighVolume(available[i].muscle_groups, weekly_volume) # <<>>}),
    weekly_volume)

\* (datetime.now() - last_performed).days
days_ago(now, last_performed) == (now - last_performed) \div TicksPerDay

RecencyEntry(exercise, d) ==
  NotRecommendedExercise(exercise,
    <<"Performed", ToString(d), IF d # 1 THEN "days" ELSE "day",
      "ago", "-", "insufficient", "recovery">>)

RecencyEntries(out, last_performed, now) ==
  [k \in 1..Len(out) |-> RecencyEntry(out[k], days_ago(now, last_performed[out[k].id]))]

\* Step 6
RecencyExclusions(available, user_workout_history, now) ==
  IF ~user_workout_history.has THEN <<>>
  ELSE RecencyEntries(
         FilterAt(available,
           {i \in 1..Len(available) :
              /\ available[i].id \in DOMAIN user_workout_history.last_performed
              /\ days_ago(now, user_workout_history.last_performed[available[i].id])
                   < RecencyDays}),
         user_workout_history.last_performed, now)

RECURSIVE BeforeColon(_)
BeforeColon(reason) ==
  IF reason = <<>> \/ Head(reason) = ":" THEN <<>>
  ELSE <<Head(reason)>> \o BeforeColon(Tail(reason))

\* Step 7: the key under which an entry is grouped
reason_type(reason) ==
  IF ":" \in SeqToSet(reason) THEN BeforeColon(reason) ELSE <<reason[1]>>

RECURSIVE ReasonTypeOrder(_, _)
\* the reason types in the order in which their first entry occurs
ReasonTypeOrder(entries, seen) ==
  IF entries = <<>> THEN <<>>
  ELSE IF reason_type(Head(entries).reason) \in seen
       THEN ReasonTypeOrder(Tail(entries), seen)
       ELSE <<reason_type(Head(entries).reason)>>
              \o ReasonTypeOrder(Tail(entries), seen \cup {reason_type(Head(entries).reason)})

RECURSIVE DiverseLoop(_, _, _)
DiverseNext(types, entries, acc) ==
  IF Len(acc) >= NotRecommendedCap THEN acc ELSE DiverseLoop(Tail(types), entries, acc)

\* extend by at most max_per_type entries of each type, stop at 10 or more
DiverseLoop(types, entries, acc) ==
  IF types = <<>> THEN acc
  ELSE DiverseNext(types, entries,
         acc \o Take(FilterAt(entries,
                       {i \in 1..Len(entries) :
                          reason_type(entries[i].reason) = Head(types)}),
                     MaxPerType))

\* step 7 left out: every exclusion is kept
KeepAllExclusions(entries) == entries

diverse_not_recommended(entries) ==
  Take(DiverseLoop(ReasonTypeOrder(entries, {}), entries, <<>>), NotRecommendedCap)

RECURSIVE FirstSets(_, _)
\* the total_sets of the first muscle group that has a row
FirstSets(muscle_groups, weekly_volume) ==
  IF muscle_groups = <<>> THEN 0
  ELSE IF Head(muscle_groups).id \in DOMAIN weekly_volume
       THEN weekly_volume[Head(muscle_groups).id]
       ELSE FirstSets(Tail(muscle_groups), weekly_volume)

RECURSIVE MaxSets(_, _)
MaxSets(muscle_groups, weekly_volume) ==
  IF muscle_groups = <<>> THEN 0
  ELSE Max(IF Head(muscle_groups).id \in DOMAIN weekly_volume
           THEN weekly_volume[Head(muscle_groups).id] ELSE 0,
           MaxSets(Tail(muscle_groups), weekly_volume))

VolumeStatus(max_sets) ==
  IF max_sets > 20 THEN "high"
  ELSE IF max_sets > 10 THEN "moderate" ELSE "low"

get_weekly_volume_status(exercise, weekly_volume) ==
  IF DOMAIN weekly_volume = {} \/ exercise.muscle_groups = <<>> THEN "low"
  ELSE VolumeStatus(MaxSets(exercise.muscle_groups, weekly_volume))

RECURSIVE PenaltyLoop(_, _)
\* returns at the first muscle group above 10 sets (tenths: 5 = 0.5, 2 = 0.2)
PenaltyLoop(muscle_groups, weekly_volume) ==
  IF muscle_groups = <<>> THEN 0
  ELSE IF /\ Head(muscle_groups).id \in DOMAIN weekly_volume
          /\ weekly_volume[Head(muscle_groups).id] > 20 THEN 5
       ELSE IF /\ Head(muscle_groups).id \in DOMAIN weekly_volume
               /\ weekly_volume[Head(muscle_groups).id] > 10 THEN 2
            ELSE PenaltyLoop(Tail(muscle_groups), weekly_volume)

get_volume_penalty(exercise, weekly_volume) ==
  IF DOMAIN weekly_volume = {} \/ exercise.muscle_groups = <<>> THEN 0
  ELSE PenaltyLoop(exercise.muscle_groups, weekly_volume)

\* the force-type boost given to the overrepresented side
ForceBoostReversed(exercise, mp) ==
  IF exercise.force_type = None THEN 0
  ELSE IF mp.Push > mp.Pull + 1 /\ Strip(exercise.force_type) = Push THEN 150
  ELSE IF mp.Pull > mp.Push + 1 /\ Strip(exercise.force_type) = Pull THEN 150
  ELSE 0

ForceBoost(exercise, mp) ==
  IF exercise.force_type = None THEN 0
  ELSE IF mp.Push > mp.Pull + 1 /\ Strip(exercise.force_type) = Pull THEN 150
  ELSE IF mp.Pull > mp.Push + 1 /\ Strip(exercise.force_type) = Push THEN 150
  ELSE 0

MechanicsBoost(exercise, mp) ==
  IF exercise.mechanics = None THEN 0
  ELSE IF mp.Compound > mp.Isolation + 1 /\ Strip(exercise.mechanics) = Isolation THEN 150
  ELSE IF mp.Isolation > mp.Compound + 1 /\ Strip(exercise.mechanics) = Compound THEN 150
  ELSE 0

\* thousandths: 150 = 0.15
get_movement_balance_boost(exercise, movement_patterns) ==
  IF ~movement_patterns.present THEN 0
  ELSE Min(300, ForceBoost(exercise, movement_patterns)
                  + MechanicsBoost(exercise, movement_patterns))

Frequency(exercise, user_workout_history) ==
  IF user_workout_history.has /\ exercise.id \in DOMAIN user_workout_history.exercise_frequency
  THEN user_workout_history.exercise_frequency[exercise.id] ELSE 0

\* the key with the movement boost ascending
sort_key_boost_ascending(exercise, user_workout_history, weekly_volume, movement_patterns) ==
  << get_volume_penalty(exercise, weekly_volume),
     get_movement_balance_boost(exercise, movement_patterns),
     Frequency(exercise, user_workout_history) >>

sort_key(exercise, user_workout_history, weekly_volume, movement_patterns) ==
  << get_volume_penalty(exercise, weekly_volume),
     0 - get_movement_balance_boost(exercise, movement_patterns),
     Frequency(exercise, user_workout_history) >>

KeyLess(a, b) ==
  \/ a[1] < b[1]
  \/ a[1] = b[1] /\ a[2] < b[2]
  \/ a[1] = b[1] /\ a[2] = b[2] /\ a[3] < b[3]

RECURSIVE InsertByKey(_, _)
InsertByKey(x, s) ==
  IF s = <<>> THEN <<x>>
  ELSE IF KeyLess(x.key, Head(s).key) THEN <<x>> \o s
       ELSE <<Head(s)>> \o InsertByKey(x, Tail(s))

RECURSIVE StableSort(_)
StableSort(s) ==
  IF s = <<>> THEN <<>>
  ELSE InsertByKey(s[Len(s)], StableSort(SubSeq(s, 1, Len(s) - 1)))

Items(sorted) == [i \in 1..Len(sorted) |-> sorted[i].item]

\* sorted(exercises, key=sort_key)
SortExercises(exercises, user_workout_history, weekly_volume, movement_patterns) ==
  Items(StableSort(
    [i \in 1..Len(exercises) |->
       [key |-> sort_key(exercises[i], user_workout_history, weekly_volume,
                         movement_patterns),
        item |-> exercises[i]]]))

\* the score as computed, without max(0.0, min(1.0, ...))
Unclamped(base_score, volume_penalty, movement_boost) ==
  (base_score * (10 - volume_penalty)) \div 10 + movement_boost

\* base_score * (1.0 - volume_penalty) + movement_boost, clamped to [0, 1]
PriorityScore(base_score, volume_penalty, movement_boost) ==
  Max(0, Min(1000, (base_score * (10 - volume_penalty)) \div 10 + movement_boost))

BaseScore(i, freq, user_workout_history) ==
  IF user_workout_history.has THEN Max(0, 1000 - freq * 100) ELSE 1000 - i * 100

Recommendation(exercise, user_workout_history, weekly_volume, priority_score, movement_boost) ==
  [exercise_id |-> exercise.id,
   exercise_name |-> exercise.name,
   priority_score |-> priority_score,
   factors |->
     [frequency |-> IF ~user_workout_history.has THEN "low" ELSE "medium",
      last_performed |->
        IF /\ user_workout_history.has
           /\ exercise.id \in DOMAIN user_workout_history.last_performed
        THEN <<user_workout_history.last_performed[exercise.id]>> ELSE <<>>,
      progression_opportunity |-> FALSE,
      variety_boost |-> TRUE,
      weekly_volume_status |-> get_weekly_volume_status(exercise, weekly_volume),
      movement_balance |-> movement_boost > 0]]

Scored(i, exercise, user_workout_history, weekly_volume, movement_boost) ==
  Recommendation(exercise, user_workout_history, weekly_volume,
    PriorityScore(BaseScore(i, Frequency(exercise, user_workout_history),
                            user_workout_history),
                  get_volume_penalty(exercise, weekly_volume), movement_boost),
    movement_boost)

\* the recommendation built for the exercise at position i (0-based) of the ranking
ExerciseRecommendation(i, exercise, user_workout_history, weekly_volume, movement_patterns) ==
  Scored(i, exercise, user_workout_history, weekly_volume,
         get_movement_balance_boost(exercise, movement_patterns))

\* the exercise ids of a list of recommendations or of exclusions
Ids(entries) == {entries[i].exercise_id : i \in 1..Len(entries)}

\* the loop with the exercises of a high-volume muscle group passed over
RecommendationsSkippingHigh(exercises, user_workout_history, weekly_volume, movement_patterns) ==
  LET kept == FilterAt(exercises,
                {i \in 1..Len(exercises) :
                   FirstHighVolume(exercises[i].muscle_groups, weekly_volume) = <<>>})
  IN [k \in 1..Len(kept) |->
        ExerciseRecommendation(k - 1, kept[k], user_workout_history,
                               weekly_volume, movement_patterns)]

\* the loop that builds the recommendations from the first limit exercises
Recommendations(exercises, user_workout_history, weekly_volume, movement_patterns) ==
  [k \in 1..Len(exercises) |->
     ExerciseRecommendation(k - 1, exercises[k], user_workout_history,
                            weekly_volume, movement_patterns)]

\* the response: the exclusions kept are those of exercises not recommended
Response(all_exercises, filtered, available, not_recommended, recommendations) ==
  [recommendations |-> recommendations,
   not_recommended |->
     FilterAt(not_recommended,
       {i \in 1..Len(not_recommended) :
          not_recommended[i].exercise_id \notin Ids(recommendations)}),
   total_candidates |-> Len(all_exercises),
   filtered_by_equipment |-> Len(filtered) - Len(available),
   provider |-> "fallback"]

\* steps 5 to 8 on the exercises that passed the equipment filter
AfterEquipmentFilter(all_exercises, filtered, available, available_equipment_ids, user_workout_history, weekly_volume, movement_patterns, injury_restrictions, limit, now) ==
  Response(all_exercises, filtered, available,
    diverse_not_recommended(
      InjuryExclusions(all_exercises, injury_restrictions)
        \o EquipmentExclusions(filtered, available_equipment_ids)
        \o VolumeExclusions(available, weekly_volume)
        \o RecencyExclusions(available, user_workout_history, now)),
    Recommendations(
      Take(SortExercises(available, user_workout_history, weekly_volume,
                         movement_patterns), limit),
      user_workout_history, weekly_volume, movement_patterns))

\* step 4 on the exercises that passed the injury filter
AfterInjuryFilter(all_exercises, filtered, available_equipment_ids, user_workout_history, weekly_volume, movement_patterns, injury_restrictions, limit, now) ==
  AfterEquipmentFilter(all_exercises, filtered,
    available_exercises(filtered, available_equipment_ids), available_equipment_ids,
    user_workout_history, weekly_volume, movement_patterns, injury_restrictions,
    limit, now)

\* steps 2 to 8 of FallbackProvider.get_exercise_recommendations on the rows read
FallbackPipeline(all_exercises, available_equipment_ids, user_workout_history, weekly_volume, movement_patterns, injury_restrictions, limit, now) ==
  AfterInjuryFilter(all_exercises,
    injury_filtered_exercises(all_exercises, injury_restrictions),
    available_equipment_ids, user_workout_history, weekly_volume, movement_patterns,
    injury_restrictions, limit, now)

\* the exception object of a call that raised
Raised(what) == [raised |-> TRUE, error |-> what]
Returned(response) == [raised |-> FALSE, response |-> response]

\* FallbackProvider.get_exercise_recommendations: the read of the candidate rows
\* (db_ok = FALSE: db.execute raises) followed by the pipeline
FallbackGetExerciseRecommendations(db_ok, muscle_group_ids, available_equipment_ids, user_workout_history, weekly_volume, movement_patterns, injury_restrictions, limit, now) ==
  IF ~db_ok THEN Raised("DatabaseError")
  ELSE Returned(FallbackPipeline(QueryExercises(muscle_group_ids),
                  available_equipment_ids, user_workout_history, weekly_volume,
                  movement_patterns, injury_restrictions, limit, now))

\* ------------------------------------------------------------ remote adapters
\* what a remote provider can answer: JSON bodies by the token that stands for them
JsonReplies ==
  [ overlap |-> [recommendations |-> <<1, 2, 3, 4>>, not_recommended |-> <<2, 3>>,
                 has_total |-> FALSE, total_candidates |-> 0],
    norecs  |-> [recommendations |-> <<>>, not_recommended |-> <<2>>,
                 has_total |-> TRUE, total_candidates |-> 3],
    zero    |-> [recommendations |-> <<1>>, not_recommended |-> <<>>,
                 has_total |-> TRUE, total_candidates |-> 0] ]

\* the code-fence markers (three backquotes, with and without the word json)
JsonFence == "fence-json"
Fence == "fence"

\* the outcomes of one remote API call: a transport failure or a reply text
\* (a sequence of tokens: white space, code fences, one body)
RemoteOutcomes ==
  { [kind |-> "api_error", text |-> <<>>],
    [kind |-> "text", text |-> <<"garbage">>],
    [kind |-> "text", text |-> <<JsonFence, "overlap", Fence>>],
    [kind |-> "text", text |-> <<" ", Fence, "norecs", Fence, " ">>],
    [kind |-> "text", text |-> <<"zero">>] }

\* the ExerciseRecommendation built from the reply item of exercise id, with the
\* factor defaults of ClaudeProvider._parse_response
RemoteRecommendation(id) ==
  [exercise_id |-> id,
   exercise_name |-> Exercises[id].name,
   priority_score |-> 900,
   factors |-> [frequency |-> "low", last_performed |-> <<>>,
                progression_opportunity |-> FALSE, variety_boost |-> TRUE,
                weekly_volume_status |-> "low", movement_balance |-> FALSE]]

RemoteNotRecommended(id) ==
  [exercise_id |-> id, exercise_name |-> Exercises[id].name,
   reason |-> <<"Not", "suitable">>]

\* text[n:] when text starts with the marker, text[:-n] when it ends with it
DropHead(t, token) == IF t # <<>> /\ Head(t) = token THEN Tail(t) ELSE t
DropLast(t, token) ==
  IF t # <<>> /\ t[Len(t)] = token THEN SubSeq(t, 1, Len(t) - 1) ELSE t

\* the stripping of the code-fence markers at the start of _parse_response
StripFences(response_text) ==
  Strip(DropLast(DropHead(DropHead(Strip(response_text), JsonFence), Fence), Fence))

\* json.loads succeeds on exactly one well-formed body
JsonLoadable(text) == Len(text) = 1 /\ text[1] \in DOMAIN JsonReplies

\* the response handed on without the check for an empty reply
ReturnUnchecked(response) == Returned(response)

\* the check that follows the construction of the response
RaiseIfEmpty(response) ==
  IF response.total_candidates = 0 \/ Len(response.recommendations) = 0
  THEN Raised("ValueError")
  ELSE Returned(response)

RemoteRecommendations(ids) == [i \in 1..Len(ids) |-> RemoteRecommendation(ids[i])]

ClaudeResponse(data, limit) ==
  [recommendations |-> Take(RemoteRecommendations(data.recommendations), limit),
   not_recommended |->
     Take([i \in 1..Len(data.not_recommended) |->
             RemoteNotRecommended(data.not_recommended[i])], NotRecommendedCap),
   total_candidates |-> IF data.has_total THEN data.total_candidates
                        ELSE Len(data.recommendations),
   filtered_by_equipment |-> Len(data.recommendations),
   provider |-> "claude"]

ClaudeParseStripped(text, limit) ==
  IF ~JsonLoadable(text) THEN Raised("JSONDecodeError")
  ELSE RaiseIfEmpty(ClaudeResponse(JsonReplies[text[1]], limit))

ClaudeParseResponse(response_text, limit) ==
  ClaudeParseStripped(StripFences(response_text), limit)

GeminiResponse(data, limit) ==
  [recommendations |-> Take(RemoteRecommendations(data.recommendations), limit),
   not_recommended |-> <<>>,
   total_candidates |-> IF data.has_total THEN data.total_candidates
                        ELSE Len(data.recommendations),
   filtered_by_equipment |-> Len(data.recommendations),
   provider |-> "gemini"]

GeminiParseStripped(text, limit) ==
  IF ~JsonLoadable(text) THEN Raised("JSONDecodeError")
  ELSE RaiseIfEmpty(GeminiResponse(JsonReplies[text[1]], limit))

GeminiParseResponse(response_text, limit) ==
  GeminiParseStripped(StripFences(response_text), limit)

\* bool(api_key and api_key.strip())
KeyConfigured(api_key) == api_key # <<>> /\ Strip(api_key) # <<>>

ClaudeIsAvailable(settings) == KeyConfigured(settings.ANTHROPIC_API_KEY)
GeminiIsAvailable(settings) == KeyConfigured(settings.GEMINI_API_KEY)

ClaudeGetExerciseRecommendations(settings, out, limit) ==
  IF ~ClaudeIsAvailable(settings) THEN Raised("RuntimeError")
  ELSE IF out.kind = "api_error" THEN Raised("APIError")
       ELSE ClaudeParseResponse(out.text, limit)

GeminiGetExerciseRecommendations(settings, out, limit) ==
  IF ~GeminiIsAvailable(settings) THEN Raised("RuntimeError")
  ELSE IF out.kind = "api_error" THEN Raised("APIError")
       ELSE GeminiParseResponse(out.text, limit)

\* ------------------------------------------------------------- orchestrator
\* rows of workout_exercises by workout session id: the exercise ids placed
WorkoutExerciseRows == (7 :> <<1, 2, 1>>)

\* the history the endpoint builds for a user with completed sessions
History1 ==
  [has |-> TRUE, exercise_frequency |-> (1 :> 2), last_performed |-> (1 :> (0 - 20))]

ReqHistory == {NoHistory, History1}

\* argument profiles of a recommendation call; the two of Profiles share a
\* cache key, OtherProfile has another one
Profiles ==
  { [muscle_group_ids |-> <<1, 2>>, available_equipment_ids |-> <<1>>,
     user_workout_history |-> NoHistory, workout_session_id |-> 7],
    [muscle_group_ids |-> <<2, 1>>, available_equipment_ids |-> <<1>>,
     user_workout_history |-> History1, workout_session_id |-> 0] }

OtherProfile ==
  [muscle_group_ids |-> <<1>>, available_equipment_ids |-> <<>>,
   user_workout_history |-> NoHistory, workout_session_id |-> 0]

\* a call made during workout session 7, whose exercises so far are all Push
\* and Compound, for a muscle group with a Pull and Isolation candidate
TallyProfile ==
  [muscle_group_ids |-> <<3>>, available_equipment_ids |-> <<>>,
   user_workout_history |-> NoHistory, workout_session_id |-> 7]

Request(profile, limit, use_cache) ==
  [muscle_group_ids |-> profile.muscle_group_ids,
   available_equipment_ids |-> profile.available_equipment_ids,
   user_workout_history |-> profile.user_workout_history,
   workout_session_id |-> profile.workout_session_id,
   limit |-> limit, use_cache |-> use_cache]

\* the arguments of one call of AIRecommendationService.get_recommendations
Requests ==
  {Request(p, l, TRUE) : p \in Profiles, l \in 1..MaxLimit}
    \cup {Request(OtherProfile, 1, u) : u \in BOOLEAN}

\* app.core.config.settings; a key is text, blank when not configured
SettingsSpace ==
  [AI_PROVIDER : {"claude", "ollama"},
   ANTHROPIC_API_KEY : {<<" ">>, <<"k">>},
   GEMINI_API_KEY : {<<>>, <<"k">>}]

\* keyword arguments and declared parameters of the calls between the layers
ServiceParams ==
  {"muscle_group_ids", "available_equipment_ids", "user_workout_history",
   "workout_session_id", "limit", "use_cache"}
EndpointKwargs == ServiceParams \cup {"user_id"}
ProviderKwargs ==
  {"muscle_group_ids", "available_equipment_ids", "user_workout_history",
   "weekly_volume", "movement_patterns", "limit"}
ExceptFallbackKwargs == ProviderKwargs \ {"movement_patterns"}
ProviderParams(p) ==
  IF p = "gemini"
  THEN {"muscle_group_ids", "available_equipment_ids", "user_workout_history", "limit"}
  ELSE ProviderKwargs \cup {"injury_restrictions"}

_get_cache_key(muscle_group_ids, available_equipment_ids) ==
  [mg |-> SortedInts(muscle_group_ids), eq |-> SortedInts(available_equipment_ids)]

\* the comparison of the cache check turned round
CacheStale(now, cached_time) == now - cached_time >= CacheTtl

\* datetime.now() - cached_time < self._cache_ttl
CacheFresh(now, cached_time) == now - cached_time < CacheTtl

\* the cache check with an expired entry left in place
CacheLookupKeeping(cache, req, now) ==
  LET cache_key == _get_cache_key(req.muscle_group_ids, req.available_equipment_ids) IN
  IF req.use_cache /\ cache_key \in DOMAIN cache /\ CacheFresh(now, cache[cache_key].time)
  THEN [hit |-> TRUE, response |-> <<cache[cache_key].response>>, cache |-> cache]
  ELSE [hit |-> FALSE, response |-> <<>>, cache |-> cache]

\* the cache check with the whole cache emptied when the entry has expired
CacheLookupClearing(cache, req, now) ==
  LET cache_key == _get_cache_key(req.muscle_group_ids, req.available_equipment_ids) IN
  IF req.use_cache /\ cache_key \in DOMAIN cache
  THEN IF CacheFresh(now, cache[cache_key].time)
       THEN [hit |-> TRUE, response |-> <<cache[cache_key].response>>, cache |-> cache]
       ELSE [hit |-> FALSE, response |-> <<>>, cache |-> EmptyMap]
  ELSE [hit |-> FALSE, response |-> <<>>, cache |-> cache]

\* the cache check at the head of get_recommendations: whether it returns the
\* stored response, and the cache it leaves
CacheLookup(cache, req, now) ==
  LET cache_key == _get_cache_key(req.muscle_group_ids, req.available_equipment_ids) IN
  IF req.use_cache /\ cache_key \in DOMAIN cache
  THEN IF CacheFresh(now, cache[cache_key].time)
       THEN [hit |-> TRUE, response |-> <<cache[cache_key].response>>, cache |-> cache]
       ELSE [hit |-> FALSE, response |-> <<>>,
             cache |-> [k \in DOMAIN cache \ {cache_key} |-> cache[k]]]
  ELSE [hit |-> FALSE, response |-> <<>>, cache |-> cache]

\* a cache write that keeps only what a remote provider produced
CacheStoreRemoteOnly(cache, req, response, now) ==
  IF req.use_cache /\ response.provider # "fallback"
  THEN LET cache_key == _get_cache_key(req.muscle_group_ids, req.available_equipment_ids)
       IN [k \in DOMAIN cache \cup {cache_key} |->
             IF k = cache_key THEN [response |-> response, time |-> now] ELSE cache[k]]
  ELSE cache

\* the cache write at the end of get_recommendations
CacheStore(cache, req, response, now) ==
  IF req.use_cache
  THEN LET cache_key == _get_cache_key(req.muscle_group_ids, req.available_equipment_ids)
       IN [k \in DOMAIN cache \cup {cache_key} |->
             IF k = cache_key THEN [response |-> response, time |-> now] ELSE cache[k]]
  ELSE cache

_get_weekly_volume == WeeklyVolumeRows

CountForce(ids, value) ==
  Cardinality({i \in 1..Len(ids) :
     Exercises[ids[i]].force_type # None /\ Strip(Exercises[ids[i]].force_type) = value})
CountMechanics(ids, value) ==
  Cardinality({i \in 1..Len(ids) :
     Exercises[ids[i]].mechanics # None /\ Strip(Exercises[ids[i]].mechanics) = value})

_get_workout_movement_patterns(workout_session_id) ==
  IF \/ workout_session_id = 0
     \/ workout_session_id \notin DOMAIN WorkoutExerciseRows
     \/ WorkoutExerciseRows[workout_session_id] = <<>>
  THEN [present |-> TRUE, Push |-> 0, Pull |-> 0, Compound |-> 0, Isolation |-> 0]
  ELSE LET ids == WorkoutExerciseRows[workout_session_id] IN
       [present |-> TRUE,
        Push |-> CountForce(ids, Push), Pull |-> CountForce(ids, Pull),
        Compound |-> CountMechanics(ids, Compound),
        Isolation |-> CountMechanics(ids, Isolation)]

\* the choice of the first provider with Gemini asked before Claude
GeminiBeforeClaude(settings) ==
  IF GeminiIsAvailable(settings) THEN "gemini"
  ELSE IF settings.AI_PROVIDER = "claude" /\ ClaudeIsAvailable(settings) THEN "claude"
       ELSE "fallback"

_get_provider(settings) ==
  IF settings.AI_PROVIDER = "claude" /\ ClaudeIsAvailable(settings) THEN "claude"
  ELSE IF GeminiIsAvailable(settings) THEN "gemini"
       ELSE "fallback"

\* provider.get_exercise_recommendations as the service calls it with kwargs:
\* binding of the keyword arguments, then the provider's body
InvokeProvider(p, kwargs, settings, req, out, db_ok, now) ==
  IF ~(kwargs \subseteq ProviderParams(p)) THEN Raised("TypeError")
  ELSE IF p = "claude" THEN ClaudeGetExerciseRecommendations(settings, out, req.limit)
  ELSE IF p = "gemini" THEN GeminiGetExerciseRecommendations(settings, out, req.limit)
  ELSE FallbackGetExerciseRecommendations(db_ok, req.muscle_group_ids,
         req.available_equipment_ids, req.user_workout_history,
         IF "weekly_volume" \in kwargs THEN _get_weekly_volume ELSE EmptyMap,
         IF "movement_patterns" \in kwargs
         THEN _get_workout_movement_patterns(req.workout_session_id)
         ELSE NoMovementPatterns,
         IF "injury_restrictions" \in kwargs THEN InjuryRestrictionRows ELSE NoRestrictions,
         req.limit, now)

\* one call of get_recommendations: where it stands (pc), its arguments, the
\* provider chosen, the local variable response (<<>> is None), the provider
\* invocations made so far, how and when it ended, and the creation time of the
\* cache entry that holds the response it returned (stored). repeat, again and
\* prior describe the call by the caller's previous call: whether it repeats that
\* call within the TTL of that call's return (repeat) or of the cache entry of
\* that call's response (again), and what that call returned
IdleCall ==
  [pc |-> "idle", req |-> <<>>, provider |-> "", response |-> <<>>, log |-> <<>>,
   raised |-> FALSE, hit |-> FALSE, finished |-> 0, stored |-> 0,
   repeat |-> FALSE, again |-> FALSE, prior |-> <<>>]

LogEntry(p, result) ==
  [provider |-> p, raised |-> result.raised,
   response |-> IF result.raised THEN <<>> ELSE <<result.response>>]

\* the except handler of get_recommendations up to its first await
ExceptHandler(settings, c) ==
  IF c.provider = "claude" /\ GeminiIsAvailable(settings)
  THEN [c EXCEPT !.pc = "exc_gemini"]
  ELSE IF c.response = <<>> \/ c.response[1].total_candidates = 0
       THEN [c EXCEPT !.pc = "exc_fallback"]
       ELSE [c EXCEPT !.pc = "finish"]

\* the provider the call is waiting for at pc
AwaitedProvider(c) ==
  CASE c.pc = "first" -> c.provider
    [] c.pc \in {"try_gemini", "exc_gemini"} -> "gemini"
    [] OTHER -> "fallback"

\* the call record after the awaited provider p ended with result: the
\* invocation is logged and, when it returned, response is assigned
Assigned(c, p, result) ==
  [c EXCEPT !.log = Append(@, LogEntry(p, result)),
            !.response = IF result.raised THEN @ ELSE <<result.response>>]

\* the code that follows the awaited call, up to the next await, to the end
\* (pc finish) or to the raise; c1 is the call record with the result assigned
Continue(cfg, c, p, result, c1) ==
  CASE c.pc = "first" ->
         IF result.raised THEN ExceptHandler(cfg, c1)
         ELSE IF result.response.total_candidates = 0 /\ p # "fallback"
              THEN IF p = "claude" /\ GeminiIsAvailable(cfg)
                   THEN [c1 EXCEPT !.pc = "try_gemini"]
                   ELSE [c1 EXCEPT !.pc = "try_fallback"]
              ELSE [c1 EXCEPT !.pc = "finish"]
    [] c.pc = "try_gemini" ->
         IF result.raised THEN ExceptHandler(cfg, c1)
         ELSE IF result.response.total_candidates = 0
              THEN [c1 EXCEPT !.pc = "try_fallback"]
              ELSE [c1 EXCEPT !.pc = "finish"]
    [] c.pc = "try_fallback" ->
         IF result.raised THEN ExceptHandler(cfg, c1)
         ELSE [c1 EXCEPT !.pc = "finish"]
    [] c.pc = "exc_gemini" ->
         IF result.raised THEN [c1 EXCEPT !.response = <<>>, !.pc = "exc_fallback"]
         ELSE IF result.response.total_candidates = 0
              THEN [c1 EXCEPT !.pc = "exc_fallback"]
              ELSE [c1 EXCEPT !.pc = "finish"]
    [] OTHER ->
         IF result.raised THEN [c1 EXCEPT !.raised = TRUE, !.pc = "done"]
         ELSE [c1 EXCEPT !.pc = "finish"]

Resume(cfg, c, p, result) == Continue(cfg, c, p, result, Assigned(c, p, result))

\* the step of get_recommendations that starts when the awaited provider call
\* ends: the provider's result, then the code that follows the call
ChainStep(cfg, c, out, db_ok, t) ==
  Resume(cfg, c, AwaitedProvider(c),
         InvokeProvider(AwaitedProvider(c),
                        IF c.pc = "exc_fallback" THEN ExceptFallbackKwargs ELSE ProviderKwargs,
                        cfg, c.req, out, db_ok, t))

\* the reads between the cache check and the first provider call
ContextStep(settings, c, db_ok) ==
  IF ~db_ok THEN [c EXCEPT !.raised = TRUE, !.pc = "done"]
  ELSE [c EXCEPT !.provider = _get_provider(settings), !.pc = "first"]

Calls == {"a"}

VARIABLES settings, cache, calls, now, http, adapter, equipment_profiles, workout_sessions,
          workout_exercises, add_requests

vars == <<settings, cache, calls, now, http, adapter, equipment_profiles, workout_sessions,
          workout_exercises, add_requests>>

\* a table without rows: the rows by id and the id the next insert gets
NoRows == [rows |-> EmptyMap, next_id |-> 1]

\* the handler calls of POST /workouts/{workout_id}/exercises that can be
\* in flight together, and a call that is not running
AddCalls == {"a", "b"}

IdleAdd == [pc |-> "idle", workout_id |-> 0, routine_slot_id |-> 0, exercise_id |-> 0,
            status |-> 0]

NoAdapter ==
  [provider |-> "", limit |-> 0, out |-> [kind |-> "", text |-> <<>>],
   result |-> Raised("")]

Init ==
  /\ settings \in SettingsSpace
  /\ cache = EmptyMap
  /\ calls = [c \in Calls |-> IdleCall]
  /\ now = 0
  /\ http = <<>>
  /\ adapter = NoAdapter
  /\ equipment_profiles = NoRows
  /\ workout_sessions = NoRows
  /\ workout_exercises = NoRows
  /\ add_requests = [c \in AddCalls |-> IdleAdd]

\* the end of get_recommendations: cache write and return
Complete(c, call) ==
  /\ calls' = [calls EXCEPT ![c] =
                 [call EXCEPT !.pc = "done", !.finished = now,
                              !.stored = IF call.req.use_cache THEN now ELSE 0]]
  /\ cache' = CacheStore(cache, call.req, call.response[1], now)

\* whether req repeats the returned call prev within the TTL of its return
Repeats(prev, req, t) ==
  /\ prev.pc = "done" /\ ~prev.raised
  /\ prev.req = req /\ req.use_cache
  /\ t - prev.finished < CacheTtl

\* whether req repeats the returned call prev within the TTL of the cache entry
\* that holds the response prev returned
RepeatsEntry(prev, req, t) ==
  /\ prev.pc = "done" /\ ~prev.raised
  /\ prev.req = req /\ req.use_cache
  /\ t - prev.stored < CacheTtl

\* the record of a call that starts after the caller's call prev
Entered(prev, req, t) ==
  [IdleCall EXCEPT !.req = req,
                   !.repeat = Repeats(prev, req, t),
                   !.again = RepeatsEntry(prev, req, t),
                   !.prior = IF Repeats(prev, req, t) THEN prev.response ELSE <<>>]

\* the call after the cache check: served from the cache, or on to the reads
Checked(call, look, cache_key, t) ==
  IF look.hit
  THEN [call EXCEPT !.pc = "done", !.hit = TRUE, !.finished = t,
                    !.stored = look.cache[cache_key].time,
                    !.response = look.response]
  ELSE [call EXCEPT !.pc = "context"]

\* a caller enters get_recommendations: the cache check
Begin(c, req) ==
  /\ calls[c].pc \in {"idle", "done"}
  /\ calls' = [calls EXCEPT ![c] =
                 Checked(Entered(calls[c], req, now), CacheLookup(cache, req, now),
                         _get_cache_key(req.muscle_group_ids, req.available_equipment_ids),
                         now)]
  /\ cache' = CacheLookup(cache, req, now).cache
  /\ UNCHANGED <<settings, now, http, adapter, equipment_profiles, workout_sessions,
               workout_exercises, add_requests>>

\* the weekly-volume and movement-pattern reads end, the provider is chosen
Context(c, db_ok) ==
  /\ calls[c].pc = "context"
  /\ LET call == ContextStep(settings, calls[c], db_ok) IN
     calls' = [calls EXCEPT ![c] =
                 [call EXCEPT !.finished = IF call.pc = "done" THEN now ELSE 0]]
  /\ UNCHANGED <<settings, cache, now, http, adapter, equipment_profiles, workout_sessions,
               workout_exercises, add_requests>>

\* the awaited provider call ends
ProviderReturns(c, out, db_ok) ==
  /\ calls[c].pc \in {"first", "try_gemini", "try_fallback", "exc_gemini", "exc_fallback"}
  /\ LET call == ChainStep(settings, calls[c], out, db_ok, now) IN
     IF call.pc = "finish"
     THEN Complete(c, call)
     ELSE /\ calls' = [calls EXCEPT ![c] =
                         [call EXCEPT !.finished = IF call.pc = "done" THEN now ELSE 0]]
          /\ UNCHANGED cache
  /\ UNCHANGED <<settings, now, http, adapter, equipment_profiles, workout_sessions,
               workout_exercises, add_requests>>

\* half an hour passes
Tick ==
  /\ now < MaxTime
  /\ now' = now + 1
  /\ UNCHANGED <<settings, cache, calls, http, adapter, equipment_profiles, workout_sessions,
               workout_exercises, add_requests>>

\* two coroutines that call get_recommendations on one service object; no
\* remote provider is configured
Coroutines == {"a", "b"}

InitShared ==
  /\ settings = [AI_PROVIDER |-> "ollama", ANTHROPIC_API_KEY |-> <<" ">>,
                 GEMINI_API_KEY |-> <<>>]
  /\ cache = EmptyMap
  /\ calls = [c \in Coroutines |-> IdleCall]
  /\ now = 0
  /\ http = <<>>
  /\ adapter = NoAdapter
  /\ equipment_profiles = NoRows
  /\ workout_sessions = NoRows
  /\ workout_exercises = NoRows
  /\ add_requests = [c \in AddCalls |-> IdleAdd]

\* ------------------------------------------------- endpoint and direct calls
RECURSIVE RunChain(_, _, _, _, _, _)
\* get_recommendations run from the reads to its end without interleaving
RunChain(cfg, c, out, db_ok, t, fuel) ==
  IF c.pc \in {"finish", "done"} \/ fuel = 0 THEN c
  ELSE RunChain(cfg,
                IF c.pc = "context" THEN ContextStep(cfg, c, db_ok)
                ELSE ChainStep(cfg, c, out, db_ok, t),
                out, db_ok, t, fuel - 1)

\* what a finished run of get_recommendations gives its caller
Outcome(c) == IF c.raised THEN Raised("Exception") ELSE Returned(c.response[1])

\* service.get_recommendations called with keyword arguments kwargs on a service
\* object made for this one call (its cache is empty): binding of the keyword
\* arguments, then the body
CallFreshService(kwargs, cfg, req, out, db_ok, t) ==
  IF ~(kwargs \subseteq ServiceParams) THEN Raised("TypeError")
  ELSE IF CacheLookup(EmptyMap, req, t).hit
       THEN Returned(CacheLookup(EmptyMap, req, t).response[1])
       ELSE Outcome(RunChain(cfg, [IdleCall EXCEPT !.req = req, !.pc = "context"],
                             out, db_ok, t, 8))

\* the query parameters of GET /recommendations/
EndpointParams ==
  [muscle_group_ids : {<<>>, <<1, 2>>},
   available_equipment_ids : {<<1>>},
   workout_session_id : {7},
   limit : 1..MaxLimit,
   use_cache : BOOLEAN]

\* the answer of the handler to what the service call gave
Answer(r) ==
  IF r.raised THEN [status |-> 500, body |-> <<>>]
  ELSE [status |-> 200, body |-> <<r.response>>]

\* the handler of GET /recommendations/: status and body of the answer
get_recommendations(cfg, params, history, out, db_ok, t) ==
  IF params.muscle_group_ids = <<>> THEN [status |-> 400, body |-> <<>>]
  ELSE Answer(CallFreshService(EndpointKwargs, cfg,
         [muscle_group_ids |-> params.muscle_group_ids,
          available_equipment_ids |-> params.available_equipment_ids,
          user_workout_history |-> history,
          workout_session_id |-> params.workout_session_id,
          limit |-> params.limit, use_cache |-> params.use_cache],
         out, db_ok, t))

\* one request to the endpoint is answered; http keeps the last two answers
EndpointRequest(params, history, out, db_ok) ==
  /\ LET answer == get_recommendations(settings, params, history, out, db_ok, now)
         entry == [params |-> params, time |-> now,
                   status |-> answer.status, body |-> answer.body]
     IN http' = IF Len(http) = 2 THEN <<http[2], entry>> ELSE Append(http, entry)
  /\ UNCHANGED <<settings, cache, calls, now, adapter, equipment_profiles, workout_sessions,
               workout_exercises, add_requests>>

\* a remote adapter's get_exercise_recommendations called with its own parameters
AdapterCall(p, out, limit) ==
  /\ adapter' = [provider |-> p, limit |-> limit, out |-> out,
                 result |-> IF p = "claude"
                            THEN ClaudeGetExerciseRecommendations(settings, out, limit)
                            ELSE GeminiGetExerciseRecommendations(settings, out, limit)]
  /\ UNCHANGED <<settings, cache, calls, now, http, equipment_profiles, workout_sessions,
               workout_exercises, add_requests>>

\* the arguments of FallbackProvider.get_exercise_recommendations called directly
RuleArgs ==
  [muscle_group_ids : {<<1>>, <<1, 2>>, <<2, 3>>, <<4>>, <<3, 4>>},
   available_equipment_ids : {<<>>, <<1>>, <<2>>, <<3>>},
   user_workout_history : {NoHistory, History1, History2},
   weekly_volume : {EmptyMap, WeeklyVolumeRows, WeeklyVolumeRows2},
   movement_patterns : {NoMovementPatterns, PushHeavy, CompoundHeavy},
   injury_restrictions : {NoRestrictions, InjuryRestrictionRows},
   limit : 1..MaxLimit]
  \cup
  [muscle_group_ids : {<<5>>},
   available_equipment_ids : {<<>>, <<1>>},
   user_workout_history : {NoHistory, History3},
   weekly_volume : {EmptyMap, WeeklyVolumeRows3},
   movement_patterns : {NoMovementPatterns, PushHeavy},
   injury_restrictions : {NoRestrictions, InjuryRestrictionRows2},
   limit : 1..MaxRuleLimit]

\* a direct call of the rule-based provider about to be made with args
PendingCall(args) ==
  [provider |-> "fallback", limit |-> args.limit, out |-> NoAdapter.out,
   args |-> args, called |-> FALSE, time |-> 0, result |-> Raised("")]

\* no remote provider is configured and a call of the rule-based provider with
\* arguments drawn from RuleArgs is about to be made
InitRules ==
  /\ settings \in {s \in SettingsSpace : ~ClaudeIsAvailable(s) /\ ~GeminiIsAvailable(s)}
  /\ cache = EmptyMap
  /\ calls = [c \in Calls |-> IdleCall]
  /\ now = 0
  /\ http = <<>>
  /\ adapter \in {PendingCall(args) : args \in RuleArgs}
  /\ equipment_profiles = NoRows
  /\ workout_sessions = NoRows
  /\ workout_exercises = NoRows
  /\ add_requests = [c \in AddCalls |-> IdleAdd]

\* FallbackProvider.get_exercise_recommendations runs on the pending arguments
FallbackCall(db_ok) ==
  /\ adapter.provider = "fallback" /\ ~adapter.called
  /\ adapter' =
       [adapter EXCEPT
          !.called = TRUE, !.time = now,
          !.result = FallbackGetExerciseRecommendations(db_ok,
                       adapter.args.muscle_group_ids, adapter.args.available_equipment_ids,
                       adapter.args.user_workout_history, adapter.args.weekly_volume,
                       adapter.args.movement_patterns, adapter.args.injury_restrictions,
                       adapter.args.limit, now)]
  /\ UNCHANGED <<settings, cache, calls, now, http, equipment_profiles, workout_sessions,
               workout_exercises, add_requests>>

\* --------------------------------------------------- equipment profiles
\* the ids of the users behind get_current_user
Users == {1, 2}

\* a bulk update that leaves every row as it is
ClearNone(rows, user_id, profile_id) == rows

\* update(EquipmentProfile).where(id != profile_id, user_id == ...)
\*   .values(is_default=False); profile_id 0 excludes no row
ClearOtherDefaults(rows, user_id, profile_id) ==
  [i \in DOMAIN rows |->
     IF rows[i].user_id = user_id /\ i # profile_id
     THEN [rows[i] EXCEPT !.is_default = FALSE] ELSE rows[i]]

\* POST /equipment-profiles/: is_default of the body is "true", "false" or
\* "null"; the new row gets the next id
create_equipment_profile(current_user, profile_data) ==
  /\ equipment_profiles.next_id <= MaxProfiles
  /\ equipment_profiles' =
       [rows |->
          (IF profile_data.is_default = "true"
           THEN ClearOtherDefaults(equipment_profiles.rows, current_user, 0)
           ELSE equipment_profiles.rows)
          @@ (equipment_profiles.next_id :>
                [name |-> profile_data.name,
                 is_default |-> profile_data.is_default = "true",
                 user_id |-> current_user]),
        next_id |-> equipment_profiles.next_id + 1]
  /\ UNCHANGED <<settings, cache, calls, now, http, adapter, workout_sessions,
               workout_exercises, add_requests>>

\* PUT /equipment-profiles/{profile_id}: a field of the body is "unset", "null"
\* or a value; 404 for a row that is not the user's; a null in a column that is
\* not nullable fails the commit and nothing is written
update_equipment_profile(profile_id, profile_data, current_user) ==
  /\ profile_id \in DOMAIN equipment_profiles.rows
  /\ equipment_profiles.rows[profile_id].user_id = current_user
  /\ profile_data.name # "null" /\ profile_data.is_default # "null"
  /\ equipment_profiles' =
       [equipment_profiles EXCEPT !.rows =
          [(IF profile_data.is_default = "true"
            THEN ClearOtherDefaults(equipment_profiles.rows, current_user, profile_id)
            ELSE equipment_profiles.rows)
           EXCEPT ![profile_id] =
             [name |-> IF profile_data.name = "unset" THEN @.name ELSE profile_data.name,
              is_default |-> IF profile_data.is_default = "unset" THEN @.is_default
                             ELSE profile_data.is_default = "true",
              user_id |-> @.user_id]]]
  /\ UNCHANGED <<settings, cache, calls, now, http, adapter, workout_sessions,
               workout_exercises, add_requests>>

\* DELETE /equipment-profiles/{profile_id}
delete_equipment_profile(profile_id, current_user) ==
  /\ profile_id \in DOMAIN equipment_profiles.rows
  /\ equipment_profiles.rows[profile_id].user_id = current_user
  /\ equipment_profiles' =
       [equipment_profiles EXCEPT !.rows =
          [i \in DOMAIN equipment_profiles.rows \ {profile_id} |->
             equipment_profiles.rows[i]]]
  /\ UNCHANGED <<settings, cache, calls, now, http, adapter, workout_sessions,
               workout_exercises, add_requests>>

\* POST /equipment-profiles/{profile_id}/set-default
set_default_equipment_profile(profile_id, current_user) ==
  /\ profile_id \in DOMAIN equipment_profiles.rows
  /\ equipment_profiles.rows[profile_id].user_id = current_user
  /\ equipment_profiles' =
       [equipment_profiles EXCEPT !.rows =
          [ClearOtherDefaults(equipment_profiles.rows, current_user, profile_id)
           EXCEPT ![profile_id].is_default = TRUE]]
  /\ UNCHANGED <<settings, cache, calls, now, http, adapter, workout_sessions,
               workout_exercises, add_requests>>

\* ----------------------------------------------------- workout sessions
\* a timestamp column is <<>> when NULL and <<t>> when set
WorkoutState == {"draft", "active", "paused", "completed", "abandoned"}

\* POST /workouts/: the body's state (draft when left out) goes into the row
create_workout(workout_data, current_user) ==
  /\ workout_sessions.next_id <= MaxWorkouts
  /\ workout_sessions' =
       [rows |-> workout_sessions.rows
                   @@ (workout_sessions.next_id :>
                         [routine_template_id |->
                            IF "routine_template_id" \in DOMAIN workout_data
                            THEN workout_data.routine_template_id ELSE None,
                          state |-> workout_data.state, started_at |-> None,
                          paused_at |-> None, completed_at |-> None,
                          user_id |-> current_user]),
        next_id |-> workout_sessions.next_id + 1]
  /\ UNCHANGED <<settings, cache, calls, now, http, adapter, equipment_profiles,
               workout_exercises, add_requests>>

\* PUT /workouts/{workout_id}: state of the body is "unset", "null" or a state;
\* 404 for a row that is not the user's; a null state fails the commit
update_workout(workout_id, workout_data, current_user) ==
  /\ workout_id \in DOMAIN workout_sessions.rows
  /\ workout_sessions.rows[workout_id].user_id = current_user
  /\ workout_data.state # "null"
  /\ workout_sessions' =
       [workout_sessions EXCEPT !.rows[workout_id].state =
          IF workout_data.state = "unset" THEN @ ELSE workout_data.state]
  /\ UNCHANGED <<settings, cache, calls, now, http, adapter, equipment_profiles,
               workout_exercises, add_requests>>

\* the row of the user's workout as a one-element sequence, <<>> when the
\* query of a lifecycle handler finds none (scalar_one_or_none)
OwnWorkout(workout_id, current_user) ==
  IF /\ workout_id \in DOMAIN workout_sessions.rows
     /\ workout_sessions.rows[workout_id].user_id = current_user
  THEN <<workout_sessions.rows[workout_id]>> ELSE <<>>

\* the lifecycle handler without its check of the state
LifecycleUnguarded(workout_id, found, allowed, row) ==
  IF found = <<>>
  THEN http' = <<[status |-> 404]>> /\ UNCHANGED workout_sessions
  ELSE /\ http' = <<[status |-> 200]>>
       /\ workout_sessions' = [workout_sessions EXCEPT !.rows[workout_id] = row]

\* a lifecycle handler on the row found: HTTPException 404 or 400 before
\* anything is written, else the row after the handler's assignments is
\* committed; the status of the answer is kept in http
Lifecycle(workout_id, found, allowed, row) ==
  IF found = <<>>
  THEN http' = <<[status |-> 404]>> /\ UNCHANGED workout_sessions
  ELSE IF found[1].state \notin allowed
       THEN http' = <<[status |-> 400]>> /\ UNCHANGED workout_sessions
       ELSE /\ http' = <<[status |-> 200]>>
            /\ workout_sessions' = [workout_sessions EXCEPT !.rows[workout_id] = row]

\* POST /workouts/{workout_id}/start
start_workout(workout_id, current_user) ==
  /\ Lifecycle(workout_id, OwnWorkout(workout_id, current_user), {"draft"},
               [workout_sessions.rows[workout_id] EXCEPT
                  !.state = "active", !.started_at = <<now>>, !.paused_at = None])
  /\ UNCHANGED <<settings, cache, calls, now, adapter, equipment_profiles,
               workout_exercises, add_requests>>

\* POST /workouts/{workout_id}/pause
pause_workout(workout_id, current_user) ==
  /\ Lifecycle(workout_id, OwnWorkout(workout_id, current_user), {"active"},
               [workout_sessions.rows[workout_id] EXCEPT
                  !.state = "paused", !.paused_at = <<now>>])
  /\ UNCHANGED <<settings, cache, calls, now, adapter, equipment_profiles,
               workout_exercises, add_requests>>

\* POST /workouts/{workout_id}/complete
complete_workout(workout_id, current_user) ==
  /\ Lifecycle(workout_id, OwnWorkout(workout_id, current_user), {"active", "paused"},
               [workout_sessions.rows[workout_id] EXCEPT
                  !.state = "completed", !.completed_at = <<now>>, !.paused_at = None])
  /\ UNCHANGED <<settings, cache, calls, now, adapter, equipment_profiles,
               workout_exercises, add_requests>>

\* the routine_slots table (models/routine.py): two slots of two routines
RoutineSlotRows == (1 :> [routine_template_id |-> 1]) @@ (2 :> [routine_template_id |-> 2])

\* the rows of workout_exercises of a slot of a workout
ExistingFor(workout_id, routine_slot_id) ==
  {id \in DOMAIN workout_exercises.rows :
     /\ workout_exercises.rows[id].workout_session_id = workout_id
     /\ workout_exercises.rows[id].slot_id = routine_slot_id}

\* the status add_exercise_to_workout raises before it creates the row, 0 when
\* every check passes; scalar_one_or_none raises MultipleResultsFound on two
\* rows, which the application answers with 500
AddChecks(workout_id, exercise_data, current_user) ==
  LET workout == OwnWorkout(workout_id, current_user)
      existing == ExistingFor(workout_id, exercise_data.routine_slot_id)
  IN  IF workout = <<>> THEN 404
      ELSE IF exercise_data.exercise_id \notin 1..Len(Exercises) THEN 404
      ELSE IF exercise_data.routine_slot_id \notin DOMAIN RoutineSlotRows THEN 404
      ELSE IF /\ workout[1].routine_template_id # None
              /\ RoutineSlotRows[exercise_data.routine_slot_id].routine_template_id
                   # workout[1].routine_template_id[1]
           THEN 400
      ELSE IF Cardinality(existing) > 1 THEN 500
      ELSE IF existing # {} THEN 400
      ELSE 0

\* POST /workouts/{workout_id}/exercises up to db.add: the queries and their
\* checks; a failed check answers the request
add_exercise_to_workout(c, workout_id, exercise_data, current_user) ==
  /\ add_requests[c].pc # "commit"
  /\ workout_exercises.next_id <= MaxAdded
  /\ LET status == AddChecks(workout_id, exercise_data, current_user)
     IN  add_requests' = [add_requests EXCEPT ![c] =
           [pc |-> IF status = 0 THEN "commit" ELSE "done",
            workout_id |-> workout_id,
            routine_slot_id |-> exercise_data.routine_slot_id,
            exercise_id |-> exercise_data.exercise_id,
            status |-> status]]
  /\ UNCHANGED <<settings, cache, calls, now, http, adapter, equipment_profiles,
                 workout_sessions, workout_exercises>>

\* the rest of the handler, entered after the await of the last query:
\* db.add, commit, answer 201
add_exercise_commit(c) ==
  /\ add_requests[c].pc = "commit"
  /\ workout_exercises' =
       [rows |-> workout_exercises.rows
                   @@ (workout_exercises.next_id :>
                         [workout_session_id |-> add_requests[c].workout_id,
                          slot_id |-> add_requests[c].routine_slot_id,
                          exercise_id |-> add_requests[c].exercise_id,
                          slot_state |-> "not_started",
                          started_at |-> None, stopped_at |-> None]),
        next_id |-> workout_exercises.next_id + 1]
  /\ add_requests' = [add_requests EXCEPT ![c].pc = "done", ![c].status = 201]
  /\ UNCHANGED <<settings, cache, calls, now, http, adapter, equipment_profiles,
                 workout_sessions>>

\* POST /workouts/{workout_id}/abandon
abandon_workout(workout_id, current_user) ==
  /\ workout_id \in DOMAIN workout_sessions.rows
  /\ workout_sessions.rows[workout_id].user_id = current_user
  /\ workout_sessions' =
       [workout_sessions EXCEPT !.rows[workout_id] =
          [@ EXCEPT !.state = "abandoned", !.paused_at = None]]
  /\ UNCHANGED <<settings, cache, calls, now, http, adapter, equipment_profiles,
               workout_exercises, add_requests>>

Next ==
  \/ \E c \in Calls, req \in Requests : Begin(c, req)
  \/ \E c \in Calls, db_ok \in BOOLEAN : Context(c, db_ok)
  \/ \E c \in Calls, out \in RemoteOutcomes, db_ok \in BOOLEAN : ProviderReturns(c, out, db_ok)
  \/ Tick

\* one caller that awaits each call of get_recommendations before the next
Spec == Init /\ [][Next]_vars

NextHttp ==
  \/ \E params \in EndpointParams, history \in ReqHistory, out \in RemoteOutcomes,
        db_ok \in BOOLEAN : EndpointRequest(params, history, out, db_ok)
  \/ Tick

\* requests to the recommendations endpoint
SpecHttp == Init /\ [][NextHttp]_vars

NextRemote ==
  \/ \E p \in {"claude", "gemini"}, out \in RemoteOutcomes, limit \in 1..MaxLimit :
        AdapterCall(p, out, limit)
  \/ \E c \in Calls, req \in {r \in Requests : ~r.use_cache} : Begin(c, req)
  \/ \E c \in Calls, db_ok \in BOOLEAN : Context(c, db_ok)
  \/ \E c \in Calls, out \in RemoteOutcomes, db_ok \in BOOLEAN : ProviderReturns(c, out, db_ok)

\* the remote adapters called directly and through uncached service calls
SpecRemote == Init /\ [][NextRemote]_vars

NextChain ==
  \/ \E c \in Calls, limit \in 1..MaxLimit, use_cache \in BOOLEAN :
        Begin(c, Request(TallyProfile, limit, use_cache))
  \/ \E c \in Calls, db_ok \in BOOLEAN : Context(c, db_ok)
  \/ \E c \in Calls, out \in RemoteOutcomes, db_ok \in BOOLEAN : ProviderReturns(c, out, db_ok)
  \/ Tick

\* calls of get_recommendations during a workout, under every configuration
SpecChain == Init /\ [][NextChain]_vars

NextLifecycle ==
  \/ \E u \in Users, state \in WorkoutState : create_workout([state |-> state], u)
  \/ \E u \in Users, id \in 1..MaxWorkouts : start_workout(id, u)
  \/ \E u \in Users, id \in 1..MaxWorkouts : pause_workout(id, u)
  \/ \E u \in Users, id \in 1..MaxWorkouts : complete_workout(id, u)
  \/ \E u \in Users, id \in 1..MaxWorkouts : abandon_workout(id, u)
  \/ Tick

\* create, start, pause, complete and abandon requests, one after the other,
\* to an application with one configuration
SpecLifecycle == InitShared /\ [][NextLifecycle]_vars

NextAdds ==
  \/ \E u \in Users, template \in {None, <<2>>} :
        create_workout([state |-> "draft", routine_template_id |-> template], u)
  \/ \E c \in AddCalls, u \in Users, id \in 1..MaxWorkouts,
        slot \in 1..3, exercise \in {1, Len(Exercises) + 1} :
        add_exercise_to_workout(c, id, [routine_slot_id |-> slot, exercise_id |-> exercise], u)
  \/ \E c \in AddCalls : add_exercise_commit(c)

\* workouts are created and two handler calls add exercises to their slots,
\* interleaved at the await between the last query and the commit
SpecAdds == InitShared /\ [][NextAdds]_vars

NextShared ==
  \/ \E c \in Coroutines, req \in {r \in Requests : r.limit = 1 /\ r.use_cache} : Begin(c, req)
  \/ \E c \in Coroutines, db_ok \in BOOLEAN : Context(c, db_ok)
  \/ \E c \in Coroutines, db_ok \in BOOLEAN :
        ProviderReturns(c, [kind |-> "", text |-> <<>>], db_ok)
  \/ Tick

\* the event loop runs the two coroutines, switching between them where they await
SpecShared == InitShared /\ [][NextShared]_vars

NextRules ==
  \/ \E db_ok \in BOOLEAN : FallbackCall(db_ok)
  \/ Tick

\* the rule-based provider called directly on drawn arguments
SpecRules == InitRules /\ [][NextRules]_vars

NextProfiles ==
  \/ \E u \in Users, is_default \in {"true", "false", "null"} :
        create_equipment_profile(u, [name |-> "Home", is_default |-> is_default])
  \/ \E u \in Users, id \in 1..MaxProfiles, name \in {"unset", "null", "Gym"},
        is_default \in {"unset", "null", "true", "false"} :
        update_equipment_profile(id, [name |-> name, is_default |-> is_default], u)
  \/ \E u \in Users, id \in 1..MaxProfiles : delete_equipment_profile(id, u)
  \/ \E u \in Users, id \in 1..MaxProfiles : set_default_equipment_profile(id, u)

\* requests to the equipment-profile endpoints, one after the other
SpecProfiles == Init /\ [][NextProfiles]_vars

NextWorkouts ==
  \/ \E u \in Users, state \in WorkoutState : create_workout([state |-> state], u)
  \/ \E u \in Users, id \in 1..MaxWorkouts, state \in WorkoutState \cup {"unset", "null"} :
        update_workout(id, [state |-> state], u)
  \/ \E u \in Users, id \in 1..MaxWorkouts : start_workout(id, u)
  \/ \E u \in Users, id \in 1..MaxWorkouts : pause_workout(id, u)
  \/ \E u \in Users, id \in 1..MaxWorkouts : complete_workout(id, u)
  \/ \E u \in Users, id \in 1..MaxWorkouts : abandon_workout(id, u)
  \/ Tick

\* requests to the workout endpoints, one after the other
SpecWorkouts == Init /\ [][NextWorkouts]_vars

\* ------------------------------------------------------------------- claims
\* the call has returned a result to its caller
HasReturned(c) == calls[c].pc = "done" /\ ~calls[c].raised

\* the result the call returned
Result(c) == calls[c].response[1]

\* C1: in every result returned by get_recommendations, from a remote provider
\* or from the rule-based one, fresh or served from the cache, no exercise id
\* occurs both in recommendations and in not_recommended
C1_Disjoint ==
  \A c \in Calls :
    HasReturned(c) =>
      Ids(Result(c).recommendations) \cap Ids(Result(c).not_recommended) = {}

\* C2: when both remote providers report themselves unavailable, every call of
\* get_recommendations returns a result of provider "fallback" and none raises
C2_FallbackResult ==
  (~ClaudeIsAvailable(settings) /\ ~GeminiIsAvailable(settings)) =>
    \A c \in Calls :
      calls[c].pc = "done" => ~calls[c].raised /\ Result(c).provider = "fallback"

Providers == {"claude", "gemini", "fallback"}
RemoteProviders == {"claude", "gemini"}
Awaiting == {"first", "try_gemini", "try_fallback", "exc_gemini", "exc_fallback"}

\* the place of a provider in the chain
Rank(p) == CASE p = "claude" -> 1 [] p = "gemini" -> 2 [] OTHER -> 3

\* the provider is left out of the chain by the configuration: Claude when it is
\* not the provider the settings name or has no key, Gemini when it has no key
ReportedUnavailable(p) ==
  CASE p = "claude" -> ~(settings.AI_PROVIDER = "claude" /\ ClaudeIsAvailable(settings))
    [] p = "gemini" -> ~GeminiIsAvailable(settings)
    [] OTHER -> FALSE

\* the invocation raised or returned an empty result
Failed(entry) ==
  \/ entry.raised
  \/ entry.response[1].total_candidates = 0
  \/ entry.response[1].recommendations = <<>>

\* every provider before p is unavailable or has finished, among the first n
\* invocations, by raising or with an empty result
EarlierGaveWay(log, n, p) ==
  \A q \in Providers :
    Rank(q) < Rank(p) =>
      \/ ReportedUnavailable(q)
      \/ \E j \in 1..n : log[j].provider = q /\ Failed(log[j])

\* C3: within one call the providers are invoked in the order Claude, Gemini,
\* rule-based; a provider is invoked (awaited, or in the log of finished
\* invocations) only when every earlier provider is unavailable or has finished
\* by raising or with an empty result; an invocation that returns a non-empty
\* result is the last one of the call and its result is the one returned.
\* (That one provider is not invoked twice is the subject of C8.)
C3_ChainOrder ==
  \A c \in Calls :
    /\ \A i, j \in 1..Len(calls[c].log) :
         i < j => Rank(calls[c].log[i].provider) <= Rank(calls[c].log[j].provider)
    /\ \A i \in 1..Len(calls[c].log) :
         EarlierGaveWay(calls[c].log, i - 1, calls[c].log[i].provider)
    /\ calls[c].pc \in Awaiting =>
         /\ EarlierGaveWay(calls[c].log, Len(calls[c].log), AwaitedProvider(calls[c]))
         /\ \A i \in 1..Len(calls[c].log) :
              Rank(calls[c].log[i].provider) <= Rank(AwaitedProvider(calls[c]))
    /\ \A i \in 1..Len(calls[c].log) :
         ~Failed(calls[c].log[i]) =>
           /\ i = Len(calls[c].log)
           /\ HasReturned(c)
           /\ calls[c].response = calls[c].log[i].response

\* a call went through the whole chain: Claude raised, Gemini raised, the
\* rule-based provider returned the result
C3_WholeChainWalked ==
  \E c \in Calls :
    /\ HasReturned(c)
    /\ Len(calls[c].log) = 3
    /\ calls[c].log[1].provider = "claude" /\ calls[c].log[1].raised
    /\ calls[c].log[2].provider = "gemini" /\ calls[c].log[2].raised
    /\ calls[c].log[3].provider = "fallback" /\ ~calls[c].log[3].raised
    /\ Result(c).provider = "fallback"

\* C4: no invocation of the rule-based provider raises; each returns a result
\* of provider "fallback"
C4_RuleBasedNeverRaises ==
  \A c \in Calls :
    \A i \in 1..Len(calls[c].log) :
      calls[c].log[i].provider = "fallback" =>
        /\ ~calls[c].log[i].raised
        /\ calls[c].log[i].response[1].provider = "fallback"

\* C5: every result returned by get_recommendations has at most limit
\* recommendations, limit being the limit of that call, also when the result is
\* served from the cache after earlier calls with other limits
C5_AtMostLimit ==
  \A c \in Calls :
    HasReturned(c) => Len(Result(c).recommendations) <= calls[c].req.limit

\* the call was served from the cache the result its predecessor returned, and
\* invoked no provider
ServedAgain(c) ==
  /\ calls[c].pc = "done" /\ ~calls[c].raised
  /\ calls[c].hit
  /\ calls[c].log = <<>>
  /\ calls[c].response = calls[c].prior

\* C6 (as stated): a call with use_cache = true that has the inputs of the
\* caller's previous call and starts within the TTL of that call returns the
\* result that call returned and invokes no provider
C6_RepeatWithinTtlOfFirstCall ==
  \A c \in Calls : calls[c].repeat => ServedAgain(c)

\* C6 (amended): a call with use_cache = true that has the inputs of the
\* caller's previous call and starts within the TTL of the cache entry that
\* holds the result that call returned (the entry is as old as the chain walk
\* that produced the result) returns that result and invokes no provider
C6_RepeatWithinTtlOfEntry ==
  \A c \in Calls : calls[c].again => ServedAgain(c)

\* a call repeats its predecessor half an hour or more after the entry was
\* made, still within its TTL, and is served from the cache
C6_RepeatServed ==
  \E c \in Calls :
    /\ calls[c].again
    /\ calls[c].hit
    /\ calls[c].finished > calls[c].stored
    /\ calls[c].prior # <<>>

\* C7: a candidate of the request that an active injury restriction of the user
\* matches is not in the recommendations of the result and is in not_recommended
\* with the reason "May aggravate {injury_name}"
C7_RestrictedNeverRecommended ==
  \A c \in Calls :
    HasReturned(c) =>
      \A i \in 1..Len(QueryExercises(calls[c].req.muscle_group_ids)) :
        is_restricted_by_injury(QueryExercises(calls[c].req.muscle_group_ids)[i],
                                InjuryRestrictionRows) # None =>
          /\ QueryExercises(calls[c].req.muscle_group_ids)[i].id
               \notin Ids(Result(c).recommendations)
          /\ \E k \in 1..Len(Result(c).not_recommended) :
               /\ Result(c).not_recommended[k].exercise_id =
                    QueryExercises(calls[c].req.muscle_group_ids)[i].id
               /\ Result(c).not_recommended[k].reason =
                    is_restricted_by_injury(
                      QueryExercises(calls[c].req.muscle_group_ids)[i],
                      InjuryRestrictionRows)

\* C8: within one call no provider is invoked twice: the finished invocations
\* are of different providers and the awaited provider is none of them
C8_EachProviderOnce ==
  \A c \in Calls :
    /\ \A i, j \in 1..Len(calls[c].log) :
         i # j => calls[c].log[i].provider # calls[c].log[j].provider
    /\ calls[c].pc \in Awaiting =>
         \A i \in 1..Len(calls[c].log) :
           calls[c].log[i].provider # AwaitedProvider(calls[c])

\* the request names muscle groups and asks for the cache
CachingRequest(entry) ==
  entry.params.muscle_group_ids # <<>> /\ entry.params.use_cache

\* C9: of two requests to the endpoint with use_cache = true and the same
\* muscle-group and equipment ids, the later one arriving within the TTL of the
\* earlier one, the later one is answered with the result of the earlier one
C9_SharedCache ==
  (/\ Len(http) = 2
   /\ CachingRequest(http[1]) /\ CachingRequest(http[2])
   /\ _get_cache_key(http[1].params.muscle_group_ids,
                     http[1].params.available_equipment_ids)
        = _get_cache_key(http[2].params.muscle_group_ids,
                         http[2].params.available_equipment_ids)
   /\ http[2].time - http[1].time < CacheTtl)
  => /\ http[2].status = 200
     /\ http[2].body = http[1].body

\* the reply text holds no body that parses, or one without recommendations
\* or with total_candidates = 0
Unusable(out) ==
  \/ out.kind = "api_error"
  \/ ~JsonLoadable(StripFences(out.text))
  \/ JsonReplies[StripFences(out.text)[1]].recommendations = <<>>
  \/ /\ JsonReplies[StripFences(out.text)[1]].has_total
     /\ JsonReplies[StripFences(out.text)[1]].total_candidates = 0

\* the key of the remote provider is configured
Configured(p) ==
  IF p = "claude" THEN ClaudeIsAvailable(settings) ELSE GeminiIsAvailable(settings)

\* C10: a remote adapter returns no result with an empty recommendations list
\* or total_candidates = 0; it raises when it is not configured, the remote
\* call failed, the reply does not parse or the parsed recommendations are
\* empty; and after a remote provider raised in a call of get_recommendations a
\* later provider of the chain is invoked
C10_RemoteNeverEmpty ==
  /\ adapter.provider # "" =>
       /\ ~adapter.result.raised =>
            /\ adapter.result.response.recommendations # <<>>
            /\ adapter.result.response.total_candidates # 0
       /\ (~Configured(adapter.provider) \/ Unusable(adapter.out)) =>
            adapter.result.raised
  /\ \A c \in Calls :
       \A i \in 1..Len(calls[c].log) :
         calls[c].log[i].provider \in RemoteProviders =>
           /\ ~calls[c].log[i].raised =>
                /\ calls[c].log[i].response[1].recommendations # <<>>
                /\ calls[c].log[i].response[1].total_candidates # 0
           /\ calls[c].log[i].raised =>
                IF i < Len(calls[c].log)
                THEN Rank(calls[c].log[i + 1].provider) > Rank(calls[c].log[i].provider)
                ELSE /\ calls[c].pc \in Awaiting
                     /\ Rank(AwaitedProvider(calls[c])) > Rank(calls[c].log[i].provider)

\* a configured adapter got a reply that parses to an empty recommendations
\* list and raised, and a call of get_recommendations went on to the rule-based
\* provider after Claude raised
C10_EmptyReplyRaised ==
  /\ adapter.provider # "" /\ Configured(adapter.provider)
  /\ adapter.out.kind = "text"
  /\ JsonLoadable(StripFences(adapter.out.text))
  /\ JsonReplies[StripFences(adapter.out.text)[1]].recommendations = <<>>
  /\ adapter.result.raised
  /\ \E c \in Calls :
       /\ Len(calls[c].log) >= 2
       /\ calls[c].log[1].provider = "claude" /\ calls[c].log[1].raised
       /\ calls[c].log[Len(calls[c].log)].provider = "fallback"

\* C11: when Gemini is the provider awaited because the first remote provider
\* is unavailable (Gemini was chosen first) or because its call failed (the
\* except handler turned to Gemini), Gemini is available and its reply parses
\* to a non-empty recommendations list, then the step that ends that call
\* makes get_recommendations return the result of provider "gemini" and the
\* rule-based provider has not been invoked
C11_GeminiResultReturned ==
  [][\A c \in Calls, out \in RemoteOutcomes, db_ok \in BOOLEAN :
       ( /\ \/ calls[c].pc = "first" /\ calls[c].provider = "gemini"
            \/ calls[c].pc = "exc_gemini"
         /\ GeminiIsAvailable(settings)
         /\ out.kind = "text"
         /\ ~GeminiParseResponse(out.text, calls[c].req.limit).raised
         /\ ProviderReturns(c, out, db_ok) )
       => /\ calls'[c].pc = "done" /\ ~calls'[c].raised
          /\ calls'[c].response[1].provider = "gemini"
          /\ \A i \in 1..Len(calls'[c].log) : calls'[c].log[i].provider # "fallback"]_vars

\* C12: the cache check of a call with use_cache returns the stored result if
\* and only if the cache holds an entry for the key whose age is strictly less
\* than the TTL (one hour); a hit leaves the cache as it is; an entry whose age
\* has reached the TTL is not returned, the call goes on as on a miss, and the
\* check removes that entry and no other
C12_LookupFreshOnly ==
  [][\A c \in Calls, req \in Requests :
       (req.use_cache /\ Begin(c, req)) =>
         LET key == _get_cache_key(req.muscle_group_ids, req.available_equipment_ids)
             present == key \in DOMAIN cache
         IN /\ calls'[c].hit <=> (present /\ now - cache[key].time < CacheTtl)
            /\ calls'[c].hit =>
                 /\ calls'[c].pc = "done" /\ ~calls'[c].raised
                 /\ calls'[c].response = <<cache[key].response>>
                 /\ calls'[c].log = <<>>
                 /\ cache' = cache
            /\ ~calls'[c].hit => calls'[c].pc = "context" /\ calls'[c].response = <<>>
            /\ (present /\ now - cache[key].time >= CacheTtl) =>
                 /\ ~calls'[c].hit
                 /\ key \notin DOMAIN cache'
                 /\ DOMAIN cache' = DOMAIN cache \ {key}
                 /\ \A k \in DOMAIN cache' : cache'[k] = cache[k]
            /\ ~present => cache' = cache]_vars

\* a call that repeats the caller's previous call finds the entry of that call's
\* result one hour old: it goes on to the reads and the entry is gone
C12_ExpiredEntryRemoved ==
  \E c \in Calls :
    /\ calls[c].pc = "context" /\ calls[c].req.use_cache
    /\ calls[c].repeat /\ ~calls[c].again
    /\ _get_cache_key(calls[c].req.muscle_group_ids, calls[c].req.available_equipment_ids)
         \notin DOMAIN cache

\* C13: every step of a call that is past its cache check changes the cache
\* only when it ends the call by returning a result and the call has use_cache:
\* then the entry of the request's key becomes exactly (returned result, current
\* time), whichever provider produced the result, and no other entry changes;
\* a step that raises, a step of a call without use_cache and a step that goes
\* on to the next provider leave the cache as it is
C13_CacheWrittenOnReturn ==
  [][\A c \in Calls :
       (calls[c].pc \notin {"idle", "done"} /\ calls'[c] # calls[c]) =>
         LET key == _get_cache_key(calls[c].req.muscle_group_ids,
                                   calls[c].req.available_equipment_ids)
         IN IF calls'[c].pc = "done" /\ ~calls'[c].raised /\ calls[c].req.use_cache
            THEN /\ DOMAIN cache' = DOMAIN cache \cup {key}
                 /\ cache'[key] = [response |-> calls'[c].response[1], time |-> now]
                 /\ \A k \in DOMAIN cache \ {key} : cache'[k] = cache[k]
            ELSE cache' = cache]_vars

\* a chain walk that the rule-based provider ended after a remote provider gave
\* way has returned half an hour or more after the start, and the cache holds
\* its result under the time of the return
C13_FallbackResultCached ==
  \E c \in Calls :
    /\ HasReturned(c) /\ ~calls[c].hit /\ calls[c].req.use_cache
    /\ Len(calls[c].log) >= 2
    /\ Result(c).provider = "fallback"
    /\ calls[c].finished >= 1 /\ now = calls[c].finished
    /\ LET key == _get_cache_key(calls[c].req.muscle_group_ids,
                                 calls[c].req.available_equipment_ids)
       IN key \in DOMAIN cache
            /\ cache[key] = [response |-> Result(c), time |-> calls[c].finished]

\* the rule-based provider, called directly, has returned a response
RuleReturned == adapter.provider = "fallback" /\ adapter.called /\ ~adapter.result.raised

\* the response and the arguments of that call
RuleResponse == adapter.result.response
RuleCallArgs == adapter.args

\* the entry gives missing equipment as its reason
EquipmentReason(entry) ==
  Len(entry.reason) >= 3 /\ SubSeq(entry.reason, 1, 3) = <<"Equipment", "not", "available">>

\* the candidate has a primary equipment, and neither it nor the secondary one
\* is in the non-empty list of available equipment
LacksEquipment(exercise, available_equipment_ids) ==
  /\ exercise.primary_equipment_id # 0
  /\ available_equipment_ids # <<>>
  /\ \A k \in 1..Len(available_equipment_ids) :
       /\ available_equipment_ids[k] # exercise.primary_equipment_id
       /\ available_equipment_ids[k] # exercise.secondary_equipment_id

\* C14: in every response of the rule-based provider, an exclusion with an
\* "Equipment not available" reason is of a candidate that has a primary
\* equipment while the available-equipment list is non-empty and holds neither
\* its primary nor its secondary equipment id (so a candidate without primary
\* equipment has no such exclusion, and an empty list gives none at all), and
\* filtered_by_equipment is the number of candidates past the injury filter
\* that lack equipment in this sense
C14_EquipmentExclusions ==
  RuleReturned =>
    /\ \A i \in 1..Len(RuleResponse.not_recommended) :
         EquipmentReason(RuleResponse.not_recommended[i]) =>
           /\ LacksEquipment(Exercises[RuleResponse.not_recommended[i].exercise_id],
                             RuleCallArgs.available_equipment_ids)
           /\ RuleResponse.not_recommended[i].exercise_id
                \notin Ids(RuleResponse.recommendations)
    /\ \A i \in 1..Len(RuleResponse.recommendations) :
         ~LacksEquipment(Exercises[RuleResponse.recommendations[i].exercise_id],
                         RuleCallArgs.available_equipment_ids)
    /\ RuleResponse.filtered_by_equipment =
         Cardinality({i \in 1..Len(Exercises) :
            /\ \E k \in 1..Len(Exercises[i].muscle_groups) :
                 \E j \in 1..Len(RuleCallArgs.muscle_group_ids) :
                    Exercises[i].muscle_groups[k].id = RuleCallArgs.muscle_group_ids[j]
            /\ is_restricted_by_injury(Exercises[i], RuleCallArgs.injury_restrictions) = None
            /\ LacksEquipment(Exercises[i], RuleCallArgs.available_equipment_ids)})

\* a response in which two candidates are excluded for equipment and listed so,
\* while a candidate without primary equipment is recommended
C14_TwoExcludedBodyweightKept ==
  /\ RuleReturned
  /\ RuleResponse.filtered_by_equipment = 2
  /\ Cardinality({i \in 1..Len(RuleResponse.not_recommended) :
                    EquipmentReason(RuleResponse.not_recommended[i])}) = 2
  /\ \E i \in 1..Len(RuleResponse.recommendations) :
       Exercises[RuleResponse.recommendations[i].exercise_id].primary_equipment_id = 0

\* the candidates of the call (by exercise id) that pass the injury filter and
\* the equipment filter
PassingCandidates ==
  {i \in 1..Len(Exercises) :
     /\ \E k \in 1..Len(Exercises[i].muscle_groups) :
          \E j \in 1..Len(RuleCallArgs.muscle_group_ids) :
             Exercises[i].muscle_groups[k].id = RuleCallArgs.muscle_group_ids[j]
     /\ is_restricted_by_injury(Exercises[i], RuleCallArgs.injury_restrictions) = None
     /\ ~LacksEquipment(Exercises[i], RuleCallArgs.available_equipment_ids)}

\* the candidate targets a muscle group with more than 20 weekly sets
HighVolumeCandidate(i) ==
  \E k \in 1..Len(Exercises[i].muscle_groups) :
     /\ Exercises[i].muscle_groups[k].id \in DOMAIN RuleCallArgs.weekly_volume
     /\ RuleCallArgs.weekly_volume[Exercises[i].muscle_groups[k].id] > 20

\* the candidate was performed less than two days before the call
RecentCandidate(i) ==
  /\ RuleCallArgs.user_workout_history.has
  /\ i \in DOMAIN RuleCallArgs.user_workout_history.last_performed
  /\ adapter.time - RuleCallArgs.user_workout_history.last_performed[i]
       < RecencyDays * TicksPerDay

\* C15: every response of the rule-based provider has min(limit, n)
\* recommendations, n being the number of candidates that pass the injury
\* filter and the equipment filter, all of them among those candidates; the
\* weekly-volume and recency checks take none away
C15_RecommendationCount ==
  RuleReturned =>
    /\ Len(RuleResponse.recommendations)
         = Min(RuleCallArgs.limit, Cardinality(PassingCandidates))
    /\ Ids(RuleResponse.recommendations) \subseteq PassingCandidates
    /\ Cardinality(Ids(RuleResponse.recommendations)) = Len(RuleResponse.recommendations)

\* a response whose recommendations are all the passing candidates, fewer than
\* the limit, one of them of a high-volume muscle group and performed recently
C15_FlaggedCandidateKept ==
  /\ RuleReturned
  /\ Len(RuleResponse.recommendations) < RuleCallArgs.limit
  /\ \E i \in Ids(RuleResponse.recommendations) : HighVolumeCandidate(i) /\ RecentCandidate(i)

\* the largest weekly total_sets over the muscle groups of candidate i, 0 when
\* none of them has a row
MaxWeeklySets(i) ==
  LET sets == {RuleCallArgs.weekly_volume[Exercises[i].muscle_groups[k].id] :
                 k \in {j \in 1..Len(Exercises[i].muscle_groups) :
                          Exercises[i].muscle_groups[j].id \in DOMAIN RuleCallArgs.weekly_volume}}
  IN IF sets = {} THEN 0 ELSE CHOOSE m \in sets : \A n \in sets : n <= m

\* C16: every recommendation of the rule-based provider carries
\* factors.weekly_volume_status "high" when the largest weekly total_sets over
\* the candidate's muscle groups is above 20, "moderate" when it is above 10
\* and at most 20, and "low" otherwise
C16_VolumeStatus ==
  RuleReturned =>
    \A i \in 1..Len(RuleResponse.recommendations) :
      RuleResponse.recommendations[i].factors.weekly_volume_status =
        IF MaxWeeklySets(RuleResponse.recommendations[i].exercise_id) > 20 THEN "high"
        ELSE IF MaxWeeklySets(RuleResponse.recommendations[i].exercise_id) > 10
             THEN "moderate" ELSE "low"

\* a recommended candidate whose first muscle group has between 11 and 20
\* weekly sets and whose second one has more than 20 is reported "high"
C16_HighBehindModerate ==
  /\ RuleReturned
  /\ \E i \in 1..Len(RuleResponse.recommendations) :
       LET e == Exercises[RuleResponse.recommendations[i].exercise_id] IN
       /\ Len(e.muscle_groups) = 2
       /\ e.muscle_groups[1].id \in DOMAIN RuleCallArgs.weekly_volume
       /\ RuleCallArgs.weekly_volume[e.muscle_groups[1].id] \in 11..20
       /\ MaxWeeklySets(e.id) > 20
       /\ RuleResponse.recommendations[i].factors.weekly_volume_status = "high"

\* the movement tally of the call has Push above Pull by more than 1
PushOverrepresented ==
  /\ RuleCallArgs.movement_patterns.present
  /\ RuleCallArgs.movement_patterns.Push > RuleCallArgs.movement_patterns.Pull + 1

\* recommendation r is of a candidate of the given force type
OfForceType(r, force_type) ==
  /\ Exercises[r.exercise_id].force_type # None
  /\ Strip(Exercises[r.exercise_id].force_type) = force_type

\* the candidates of recommendations r and q differ in nothing that the
\* provider reads but the force type (and id and name), and the history of the
\* call gives both the same frequency
OtherwiseIdentical(r, q) ==
  /\ [Exercises[r.exercise_id] EXCEPT !.id = 0, !.name = <<>>, !.force_type = None]
       = [Exercises[q.exercise_id] EXCEPT !.id = 0, !.name = <<>>, !.force_type = None]
  /\ Frequency(Exercises[r.exercise_id], RuleCallArgs.user_workout_history)
       = Frequency(Exercises[q.exercise_id], RuleCallArgs.user_workout_history)

C18_EndpointAnswersOk ==
  [][\A params \in EndpointParams, history \in ReqHistory, out \in RemoteOutcomes :
       (params.muscle_group_ids # <<>> /\ EndpointRequest(params, history, out, TRUE))
         => /\ http'[Len(http')].status = 200
            /\ http'[Len(http')].body # <<>>
            /\ DOMAIN http'[Len(http')].body[1].recommendations \subseteq Nat
            /\ DOMAIN http'[Len(http')].body[1].not_recommended \subseteq Nat]_vars

\* the ids of the default profiles of user u in table t
DefaultsOf(t, u) == {i \in DOMAIN t.rows : t.rows[i].user_id = u /\ t.rows[i].is_default}

\* C19, first part: whatever create, update, set-default and delete requests
\* have been answered, every user has at most one equipment profile with
\* is_default true
C19_AtMostOneDefault ==
  \A u \in Users : Cardinality(DefaultsOf(equipment_profiles, u)) <= 1

\* C19, second part: a set-default request of a user on their profile P leaves
\* P as the one default profile of that user, and no row of another user changes
C19_SetDefaultMakesDefault ==
  [][\A u \in Users, id \in 1..MaxProfiles :
       set_default_equipment_profile(id, u) =>
         /\ DefaultsOf(equipment_profiles', u) = {id}
         /\ \A i \in DOMAIN equipment_profiles.rows :
              equipment_profiles.rows[i].user_id # u
                => equipment_profiles'.rows[i] = equipment_profiles.rows[i]]_vars

\* both parts of C19
C19_OneDefaultPerUser == []C19_AtMostOneDefault /\ C19_SetDefaultMakesDefault

\* both users have a default profile, and one of them has a second profile
\* that was the default before
C19_DefaultMoved ==
  /\ \A u \in Users : Cardinality(DefaultsOf(equipment_profiles, u)) = 1
  /\ \E i \in DOMAIN equipment_profiles.rows :
       /\ i < equipment_profiles.next_id - 1
       /\ ~equipment_profiles.rows[i].is_default
       /\ \E j \in DOMAIN equipment_profiles.rows :
            /\ j > i /\ equipment_profiles.rows[j].is_default
            /\ equipment_profiles.rows[j].user_id = equipment_profiles.rows[i].user_id

\* every workout session in state completed has completed_at set
C20_CompletedHasTimestamp ==
  \A i \in DOMAIN workout_sessions.rows :
    workout_sessions.rows[i].state = "completed"
      => workout_sessions.rows[i].completed_at # None

\* a successful complete request leaves the session in state completed with
\* completed_at set and paused_at cleared
C20_CompleteSetsTimestamp ==
  [][\A u \in Users, id \in 1..MaxWorkouts :
       (complete_workout(id, u) /\ http'[1].status = 200) =>
         /\ workout_sessions'.rows[id].state = "completed"
         /\ workout_sessions'.rows[id].completed_at # None
         /\ workout_sessions'.rows[id].paused_at = None]_vars

\* C20: in every state a workout session reaches through create, update (PUT),
\* start, pause, complete and abandon requests, state completed implies that
\* completed_at is set; and a successful complete request leaves state
\* completed, completed_at set and paused_at cleared
C20_CompletedImpliesCompletedAt == []C20_CompletedHasTimestamp /\ C20_CompleteSetsTimestamp

\* the volume penalty (in tenths) that goes with a largest weekly total_sets
PenaltyOfMax(max_sets) == IF max_sets > 20 THEN 5 ELSE IF max_sets > 10 THEN 2 ELSE 0

\* C21: for every candidate of a rule-based call that passes the filters, the
\* volume penalty is the one of the largest weekly total_sets over its muscle
\* groups (0.5 above 20, 0.2 above 10 and at most 20, otherwise 0), whatever
\* the order of the muscle groups; so every recommendation has the score built
\* with that penalty, and its weekly_volume_status is "high" exactly when the
\* penalty is 0.5
C21_PenaltyFromMaximum ==
  RuleReturned =>
    /\ \A i \in PassingCandidates :
         get_volume_penalty(Exercises[i], RuleCallArgs.weekly_volume)
           = PenaltyOfMax(MaxWeeklySets(i))
    /\ \A k \in 1..Len(RuleResponse.recommendations) :
         LET r == RuleResponse.recommendations[k] IN
         /\ r.priority_score =
              PriorityScore(
                BaseScore(k - 1,
                          Frequency(Exercises[r.exercise_id], RuleCallArgs.user_workout_history),
                          RuleCallArgs.user_workout_history),
                PenaltyOfMax(MaxWeeklySets(r.exercise_id)),
                get_movement_balance_boost(Exercises[r.exercise_id],
                                           RuleCallArgs.movement_patterns))
         /\ (r.factors.weekly_volume_status = "high")
              <=> (get_volume_penalty(Exercises[r.exercise_id], RuleCallArgs.weekly_volume) = 5)

\* the exclusions found by steps 3 to 6 of the direct call, in discovery order;
\* candidates and filters are those of the call's arguments
DiscoveredExclusions ==
  LET all == QueryExercises(RuleCallArgs.muscle_group_ids)
      filtered == injury_filtered_exercises(all, RuleCallArgs.injury_restrictions)
      available == available_exercises(filtered, RuleCallArgs.available_equipment_ids)
  IN InjuryExclusions(all, RuleCallArgs.injury_restrictions)
       \o EquipmentExclusions(filtered, RuleCallArgs.available_equipment_ids)
       \o VolumeExclusions(available, RuleCallArgs.weekly_volume)
       \o RecencyExclusions(available, RuleCallArgs.user_workout_history, adapter.time)

\* the discovered exclusions of candidates that are not recommended
UnrecommendedExclusions ==
  FilterAt(DiscoveredExclusions,
    {i \in 1..Len(DiscoveredExclusions) :
       DiscoveredExclusions[i].exercise_id \notin Ids(RuleResponse.recommendations)})

\* C22: the not_recommended list of every rule-based response is what the cap
\* (3 entries per reason type, 10 in all) leaves of the discovered exclusions
\* after those of recommended candidates have been removed
C22_RemovedBeforeCapped ==
  RuleReturned =>
    RuleResponse.not_recommended = diverse_not_recommended(UnrecommendedExclusions)

\* the candidates of the direct call: the exercises of one of its muscle groups
CallCandidates ==
  {i \in 1..Len(Exercises) :
     \E k \in 1..Len(Exercises[i].muscle_groups) :
        \E j \in 1..Len(RuleCallArgs.muscle_group_ids) :
           Exercises[i].muscle_groups[k].id = RuleCallArgs.muscle_group_ids[j]}

\* the positions of the call's injury restrictions that match candidate i
MatchingRestrictions(i) ==
  {k \in 1..Len(RuleCallArgs.injury_restrictions) :
     RestrictionMatches(Exercises[i], RuleCallArgs.injury_restrictions[k])}

InjuryMatched == {i \in CallCandidates : MatchingRestrictions(i) # {}}

\* "May aggravate {injury_name}" of the first restriction that matches i
FirstInjuryReason(i) ==
  <<"May", "aggravate">>
    \o RuleCallArgs.injury_restrictions[
         CHOOSE k \in MatchingRestrictions(i) : \A m \in MatchingRestrictions(i) : k <= m
       ].injury_name

\* the positions of the entries of candidate i in the not_recommended list
EntriesOf(i) ==
  {n \in 1..Len(RuleResponse.not_recommended) :
     RuleResponse.not_recommended[n].exercise_id = i}

\* what holds of an injury-matched candidate apart from how often it is listed:
\* its entries carry the reason of the first matching restriction, it is not
\* recommended, not counted in filtered_by_equipment, counted in total_candidates
PrecedenceOf(candidates, matched) ==
  /\ \A i \in matched :
       /\ \A n \in EntriesOf(i) :
            RuleResponse.not_recommended[n].reason = FirstInjuryReason(i)
       /\ i \notin Ids(RuleResponse.recommendations)
  /\ RuleResponse.filtered_by_equipment =
       Cardinality({i \in candidates \ matched :
                      LacksEquipment(Exercises[i], RuleCallArgs.available_equipment_ids)})
  /\ RuleResponse.total_candidates = Cardinality(candidates)

InjuryPrecedence == PrecedenceOf(CallCandidates, InjuryMatched)

\* C23 as stated: every candidate matched by an injury restriction has exactly
\* one entry in not_recommended, with the reason "May aggravate {injury_name}"
\* of the first matching restriction and no equipment, volume or recency
\* reason; it is not counted in filtered_by_equipment and is counted in
\* total_candidates
C23_InjuryListedExactlyOnce ==
  RuleReturned =>
    /\ InjuryPrecedence
    /\ \A i \in InjuryMatched : Cardinality(EntriesOf(i)) = 1

\* each candidate in matched is listed once when fewer than three of matched
\* come before it, and not at all otherwise
ListedWithinCap(matched) ==
  \A i \in matched :
    Cardinality(EntriesOf(i)) =
      IF Cardinality({j \in matched : j < i}) < MaxPerType THEN 1 ELSE 0

\* C23 amended: every candidate matched by an injury restriction has at most
\* one entry in not_recommended, and exactly one unless three injury-matched
\* candidates come before it among the candidates; an entry it has carries the
\* reason of the first matching restriction; the candidate is never
\* recommended, not counted in filtered_by_equipment and counted in
\* total_candidates
C23_InjuryListedOnceWithinCap ==
  RuleReturned => InjuryPrecedence /\ ListedWithinCap(InjuryMatched)

\* a response with four injury-matched candidates, each matched by two
\* restrictions of different injuries and of a muscle group above 20 weekly
\* sets: the first three are listed with the first restriction's injury, the
\* fourth is not listed, and other candidates are listed for weekly volume
C23_FourMatchedThreeListed ==
  /\ RuleReturned
  /\ Cardinality(InjuryMatched) = 4
  /\ \A i \in InjuryMatched :
       /\ Cardinality(MatchingRestrictions(i)) = 2
       /\ HighVolumeCandidate(i)
  /\ Cardinality({i \in InjuryMatched : EntriesOf(i) # {}}) = 3
  /\ \E n \in 1..Len(RuleResponse.not_recommended) :
       RuleResponse.not_recommended[n].reason[1] = "Weekly"

\* candidate j is ranked before candidate i: its volume penalty is lower, or
\* equal with a higher movement boost, or both equal with a lower frequency
\* in the history of the call, or all three equal and j is selected before i
RankedBefore(j, i) ==
  LET pj == get_volume_penalty(Exercises[j], RuleCallArgs.weekly_volume)
      pi == get_volume_penalty(Exercises[i], RuleCallArgs.weekly_volume)
      bj == get_movement_balance_boost(Exercises[j], RuleCallArgs.movement_patterns)
      bi == get_movement_balance_boost(Exercises[i], RuleCallArgs.movement_patterns)
      fj == Frequency(Exercises[j], RuleCallArgs.user_workout_history)
      fi == Frequency(Exercises[i], RuleCallArgs.user_workout_history)
  IN \/ pj < pi
     \/ pj = pi /\ bj > bi
     \/ pj = pi /\ bj = bi /\ fj < fi
     \/ pj = pi /\ bj = bi /\ fj = fi /\ j < i

\* recommendations are the first limit of the candidates in surviving, each at
\* the position given by the number of candidates ranked before it
FirstByRank(recommendations, surviving) ==
  /\ Len(recommendations) = Min(RuleCallArgs.limit, Cardinality(surviving))
  /\ \A k \in 1..Len(recommendations) :
       /\ recommendations[k].exercise_id \in surviving
       /\ Cardinality({j \in surviving : RankedBefore(j, recommendations[k].exercise_id)})
            = k - 1

\* C24: the recommendations of a rule-based response are the first limit
\* surviving candidates in ascending order of (volume_penalty, -movement_boost,
\* frequency), candidates with equal keys in candidate-selection order: the
\* k-th recommendation is the surviving candidate with exactly k-1 surviving
\* candidates ranked before it
C24_RankedByKey ==
  RuleReturned => FirstByRank(RuleResponse.recommendations, PassingCandidates)

\* a response that leaves surviving candidates out, ranks a candidate selected
\* later before one selected earlier, and has two candidates with equal keys
\* next to each other
C24_ReorderedWithTie ==
  /\ RuleReturned
  /\ Len(RuleResponse.recommendations) < Cardinality(PassingCandidates)
  /\ \E k \in 1..(Len(RuleResponse.recommendations) - 1) :
       RuleResponse.recommendations[k].exercise_id
         > RuleResponse.recommendations[k + 1].exercise_id
  /\ \E k \in 1..(Len(RuleResponse.recommendations) - 1) :
       sort_key(Exercises[RuleResponse.recommendations[k].exercise_id],
                RuleCallArgs.user_workout_history, RuleCallArgs.weekly_volume,
                RuleCallArgs.movement_patterns)
         = sort_key(Exercises[RuleResponse.recommendations[k + 1].exercise_id],
                    RuleCallArgs.user_workout_history, RuleCallArgs.weekly_volume,
                    RuleCallArgs.movement_patterns)

\* the base score (thousandths) of the recommendation at position k of the
\* response: from the frequency when the call has a history, from the rank
\* index k - 1 otherwise
BaseOf(k) ==
  IF RuleCallArgs.user_workout_history.has
  THEN LET f == Frequency(Exercises[RuleResponse.recommendations[k].exercise_id],
                          RuleCallArgs.user_workout_history)
       IN IF 1000 - 100 * f > 0 THEN 1000 - 100 * f ELSE 0
  ELSE 1000 - 100 * (k - 1)

\* base * (1 - volume_penalty) + movement_boost before clamping (thousandths)
RawScoreOf(k) ==
  (BaseOf(k) * (10 - get_volume_penalty(
                        Exercises[RuleResponse.recommendations[k].exercise_id],
                        RuleCallArgs.weekly_volume))) \div 10
    + get_movement_balance_boost(Exercises[RuleResponse.recommendations[k].exercise_id],
                                 RuleCallArgs.movement_patterns)

\* C25: every recommendation of a rule-based response has priority_score =
\* clamp(base * (1 - volume_penalty) + movement_boost, 0, 1), with base =
\* max(0, 1 - 0.1 * frequency) under a history and 1 - 0.1 * rank index
\* without one; so the score lies in [0, 1], for every limit from 1 to 20
C25_ScoreClamped ==
  RuleReturned =>
    \A k \in 1..Len(RuleResponse.recommendations) :
      /\ RuleResponse.recommendations[k].priority_score =
           IF RawScoreOf(k) < 0 THEN 0
           ELSE IF RawScoreOf(k) > 1000 THEN 1000 ELSE RawScoreOf(k)
      /\ RuleResponse.recommendations[k].priority_score \in 0..1000

\* a call without history and with limit 20 answered with more than eleven
\* recommendations: the first has score 1.0 and the twelfth, whose unclamped
\* value is negative, has score 0
C25_NegativeClampedToZero ==
  /\ RuleReturned
  /\ RuleCallArgs.limit = 20
  /\ ~RuleCallArgs.user_workout_history.has
  /\ Len(RuleResponse.recommendations) >= 12
  /\ RuleResponse.recommendations[1].priority_score = 1000
  /\ RawScoreOf(12) < 0
  /\ RuleResponse.recommendations[12].priority_score = 0

\* the reason type of a reason: the words before the first ":" or, without
\* ":", the first word
TypeOfReason(reason) ==
  IF \E k \in 1..Len(reason) : reason[k] = ":"
  THEN SubSeq(reason, 1,
         (CHOOSE k \in 1..Len(reason) :
            reason[k] = ":" /\ \A m \in 1..(k - 1) : reason[m] # ":") - 1)
  ELSE <<reason[1]>>

\* the position at which an entry was discovered
DiscoveredAt(entry, discovered) ==
  CHOOSE p \in 1..Len(discovered) : discovered[p] = entry

\* listed has at most 10 entries and at most 3 of one reason type, each of them
\* one of discovered, those of one reason type in the order of discovered
CappedInOrder(listed, discovered) ==
  /\ Len(listed) <= 10
  /\ \A n \in 1..Len(listed) :
       /\ \E p \in 1..Len(discovered) : discovered[p] = listed[n]
       /\ Cardinality({m \in 1..Len(listed) :
                         TypeOfReason(listed[m].reason) = TypeOfReason(listed[n].reason)})
            <= 3
       /\ \A m \in 1..(n - 1) :
            TypeOfReason(listed[m].reason) = TypeOfReason(listed[n].reason)
            => DiscoveredAt(listed[m], discovered) < DiscoveredAt(listed[n], discovered)

\* C26: the not_recommended list of a rule-based response has at most 10
\* entries and at most 3 of one reason type, each of them a discovered
\* exclusion, and the entries of one reason type are in discovery order
C26_ExclusionsCapped ==
  RuleReturned => CappedInOrder(RuleResponse.not_recommended, DiscoveredExclusions)

\* a response with exactly 10 exclusions of four reason types, cut from more
\* than 10 exclusions of candidates that are not recommended, more than 3 of
\* them of one type
C26_BothCapsReached ==
  /\ RuleReturned
  /\ Len(RuleResponse.not_recommended) = 10
  /\ Len(UnrecommendedExclusions) > 10
  /\ Cardinality({TypeOfReason(RuleResponse.not_recommended[n].reason) :
                    n \in 1..Len(RuleResponse.not_recommended)}) = 4
  /\ \E n \in 1..Len(UnrecommendedExclusions) :
       Cardinality({m \in 1..Len(UnrecommendedExclusions) :
                      TypeOfReason(UnrecommendedExclusions[m].reason)
                        = TypeOfReason(UnrecommendedExclusions[n].reason)}) > 3

\* the cache key of the request of coroutine c's call
KeyOf(call) == _get_cache_key(call.req.muscle_group_ids, call.req.available_equipment_ids)

\* a step that gives key k a new entry: it is the step in which one coroutine's
\* chain walk ends, and the entry is that walk's result with the time of the
\* step; the other coroutine's call is left as it was
WriteIsWholeEntry ==
  \A k \in DOMAIN cache' :
    (k \notin DOMAIN cache \/ cache'[k] # cache[k]) =>
      \E c \in Coroutines :
        /\ calls[c].pc \in Awaiting
        /\ calls'[c].pc = "done" /\ ~calls'[c].raised /\ ~calls'[c].hit
        /\ KeyOf(calls[c]) = k
        /\ cache'[k] = [response |-> calls'[c].response[1], time |-> now]
        /\ \A d \in Coroutines \ {c} : calls'[d] = calls[d]

\* a step that removes the entry of key k: it is the cache check of one
\* coroutine's call for k, and the entry removed is the one that check found,
\* at least the TTL old
RemovalOfStaleOnly ==
  \A k \in DOMAIN cache \ DOMAIN cache' :
    /\ now - cache[k].time >= CacheTtl
    /\ \E c \in Coroutines :
         /\ calls[c].pc \in {"idle", "done"}
         /\ calls'[c].pc = "context"
         /\ KeyOf(calls'[c]) = k
         /\ \A d \in Coroutines \ {c} : calls'[d] = calls[d]

\* while one coroutine waits for a provider, the other one can make its cache
\* check when it is between calls, and is resumed when the provider call it
\* waits for itself ends (by an exception, for one)
NoBlocking ==
  \A c \in Coroutines : \A d \in Coroutines \ {c} :
    calls[c].pc \in Awaiting =>
      /\ calls[d].pc \in {"idle", "done"} =>
           \A req \in {r \in Requests : r.limit = 1 /\ r.use_cache} : ENABLED Begin(d, req)
      /\ calls[d].pc \in Awaiting =>
           ENABLED ProviderReturns(d, [kind |-> "", text |-> <<>>], FALSE)

DirectResult(call) ==
  FallbackPipeline(QueryExercises(call.req.muscle_group_ids),
    call.req.available_equipment_ids, call.req.user_workout_history,
    _get_weekly_volume, _get_workout_movement_patterns(call.req.workout_session_id),
    NoRestrictions, call.req.limit, call.finished)

\* C28: a rule-based result returned by get_recommendations is the same
\* whichever way the chain reached the rule-based provider: after a remote
\* provider raised it equals the result of the provider selected directly for
\* the same request, weekly-volume snapshot and movement tally (same ranking,
\* scores and movement_balance flags)
C28_SameContextEitherWay ==
  \A c \in Calls :
    (HasReturned(c) /\ ~calls[c].hit /\ Result(c).provider = "fallback")
      => Result(c) = DirectResult(calls[c])

\* ---- C29 ----
\* the status of the answer of the step's request
AnswerStatus == http'[1].status

\* the request found the user's workout, succeeds exactly from a state in
\* allowed, and is otherwise answered 400 with the workout's state,
\* started_at, paused_at and completed_at as they were
GuardedBy(workout_id, current_user, allowed) ==
  LET found == OwnWorkout(workout_id, current_user)
      after == workout_sessions'.rows[workout_id]
  IN  found # <<>> =>
        /\ (AnswerStatus = 200) <=> (found[1].state \in allowed)
        /\ AnswerStatus # 200 =>
             /\ AnswerStatus = 400
             /\ after.state = found[1].state
             /\ after.started_at = found[1].started_at
             /\ after.paused_at = found[1].paused_at
             /\ after.completed_at = found[1].completed_at

\* C29: on a workout of the calling user, start succeeds only from draft,
\* pause only from active, complete only from active or paused; every other
\* start, pause or complete is answered with status 400 and leaves the
\* workout's state, started_at, paused_at and completed_at unchanged
C29_LifecycleGuarded ==
  [][\A u \in Users, id \in 1..MaxWorkouts :
       /\ start_workout(id, u) => GuardedBy(id, u, {"draft"})
       /\ pause_workout(id, u) => GuardedBy(id, u, {"active"})
       /\ complete_workout(id, u) => GuardedBy(id, u, {"active", "paused"})]_vars

\* C29 witness: the last lifecycle request was answered 400 on a completed
\* workout that keeps its completed_at
C29_RejectedOnCompleted ==
  /\ http = <<[status |-> 400]>>
  /\ \E id \in DOMAIN workout_sessions.rows :
       /\ workout_sessions.rows[id].state = "completed"
       /\ workout_sessions.rows[id].started_at # None
       /\ workout_sessions.rows[id].completed_at # None

\* ---- C30 ----
\* C30: for every workout session and routine slot there is at most one
\* workout exercise, after any interleaving of add requests
C30_OneExercisePerSlot ==
  \A id \in 1..MaxWorkouts, slot \in DOMAIN RoutineSlotRows :
    Cardinality(ExistingFor(id, slot)) <= 1

====
